---- MODULE Spec2Model ----
(***************************************************************************)
(* The ECM analysis pipeline of Econometrics/2_ECM_Analysis.py: the        *)
(* stationarity classifier (run_stationarity_tests), the cointegration     *)
(* gate, the per-unit ECM estimation with its diagnostics, and the result  *)
(* assembler (save_results).                                               *)
(*                                                                         *)
(* Floats are kept in thousandths (1.0 is 1000, a p-value of 0.05 is 50).  *)
(* The statistics library (adfuller, kpss, engle_granger, select_order,    *)
(* VECM.fit, the residual tests, irf, fevd) is an external collaborator:   *)
(* each call is a nondeterministic choice among the outcomes the library   *)
(* can produce (a value, or an exception).                                 *)
(***************************************************************************)
EXTENDS Integers, Sequences, FiniteSets, TLC

VARIABLES
    stat,                   \* one call of run_stationarity_tests, step by step
    coint,                  \* one call of run_cointegration_tests and its caller
    est,                    \* one call of estimate_ecm and the record built from it
    pc,                     \* main(): "load", "pass1", "pass2", "summary", "save", "done"
    step,                   \* position inside the body of the current loop iteration
    idx,                    \* position of the current loop in data.items()
    input_file,             \* unified_data.json: whether it exists, and its columns
    data,                   \* load_data(): (commodity, regime) -> group DataFrame
    stationarity_results,   \* dict key -> {usdprice, conflict_intensity}
    cointegration_results,  \* dict key -> result of run_cointegration_tests
    all_results, all_diagnostics, all_summaries, all_irfs, all_fevds,
    cur,                    \* locals of the unit run_ecm_analysis is working on
    summary_report,         \* create_summary_report(...)
    output,                 \* ecm_analysis_results.json as written by save_results
    rerun,                  \* the documents of a second run on the same input
    calls,                  \* history: how often each library routine ran per unit
    failed,                 \* history: the library routines that raised, per unit
    load,                   \* load_data on its own: file rows, groups, series handed on
    knn,                    \* export_spatial_weights on its own: the densification loop
    gc,                     \* the Granger-causality step of run_ecm_analysis on its own
    fevd,                   \* the variance-decomposition step of run_ecm_analysis on its own
    variant_run,            \* run_ecm_analysis and main of the variant script
    par,                    \* the parallel run of 4_Spatial_Analysis.py main()
    sel                     \* two runs of one unit that differ in the selected transformations

vars == << stat, coint, est, pc, step, idx, input_file, data,
           stationarity_results, cointegration_results, all_results,
           all_diagnostics, all_summaries, all_irfs, all_fevds, cur,
           summary_report, output, rerun, calls, failed, load, knn, gc, fevd,
           variant_run, par, sel >>

\* The variables of the ECM pipeline and of its parts run on their own.
ecm_vars == << stat, coint, est, pc, step, idx, input_file, data,
               stationarity_results, cointegration_results, all_results,
               all_diagnostics, all_summaries, all_irfs, all_fevds, cur,
               summary_report, output, rerun, calls, failed >>

pipe_vars == << coint, est, pc, step, idx, input_file, data,
                stationarity_results, cointegration_results, all_results,
                all_diagnostics, all_summaries, all_irfs, all_fevds, cur,
                summary_report, output, rerun, calls, failed, load, knn, gc,
                fevd, variant_run, par, sel >>

(***************************************************************************)
(* Bounds of the model.                                                    *)
(***************************************************************************)
MaxLen == 3        \* longest series handed to the classifier on its own
MaxUnits == 2      \* (commodity, regime) groups in the input panel
MaxIndex == 3      \* index labels of the series handed to run_cointegration_tests
MaxEcmLags == 4    \* largest ecm_lags estimate_ecm is called with on its own
MaxRows == 2       \* rows of the input file besides its monthly block
MaxDate == 2       \* dates of those rows
MaxK == 3          \* largest initial_k, max_k and smallest connected k
MaxAlignedLen == 65  \* longest aligned series of the Granger step on its own
MaxCov == 2        \* largest variance in the residual covariance sigma_u
MaxHorizon == 2    \* horizon steps of ma_rep after step 0
MaxTasks == 3      \* (commodity, regime) tasks submitted to the pool
MaxCpus == 3       \* largest os.cpu_count() of the machine

(***************************************************************************)
(* Program constants.                                                      *)
(***************************************************************************)
MIN_OBSERVATIONS == 30
ECM_LAGS == 2
COINTEGRATION_MAX_LAGS == 12
Alpha == 50        \* the 0.05 of "p < 0.05" and "p > 0.05", in thousandths

(***************************************************************************)
(* Floats and pandas Series.                                               *)
(***************************************************************************)
Num(v) == [t |-> "num", v |-> v]
NaN == [t |-> "nan", v |-> 0]
Inf == [t |-> "inf", v |-> 1]

IsNull(x) == x.t = "nan"
IsInf(x) == x.t = "inf"
\* x > 0 as numpy evaluates it: False for NaN, True for +inf.
Gt0(x) == (x.t = "num" /\ x.v > 0) \/ (x.t = "inf" /\ x.v > 0)

\* np.log of a strictly positive finite value, in thousandths.
Ln(v) == CASE v = 1000 -> 0
           [] v = 2000 -> 693
           [] v = 3000 -> 1099

LogSeries(s) == [i \in 1..Len(s) |-> Num(Ln(s[i].v))]

\* series.diff().dropna() of a series without NaN: the first row is dropped.
DiffDropna(s) == [i \in 1..(Len(s) - 1) |-> Num(s[i + 1].v - s[i].v)]

\* Python's None.
None == [is_none |-> TRUE]
IsNone(x) == "is_none" \in DOMAIN x

\* Python's {}.
EmptyDict == << >>

(***************************************************************************)
(* run_stationarity_tests                                                  *)
(***************************************************************************)
HasNullOrInf_NoInfCheck(series) ==
    \E i \in 1..Len(series) : IsNull(series[i])

\* series.isnull().any() or np.isinf(series).any()
HasNullOrInf(series) ==
    \/ \E i \in 1..Len(series) : IsNull(series[i])
    \/ \E i \in 1..Len(series) : IsInf(series[i])

Transformations_NonNegative(series) ==
    LET base == << [name |-> "original", series |-> series],
                   [name |-> "diff", series |-> DiffDropna(series)] >>
    IN  IF \A i \in 1..Len(series) : series[i].v >= 0
        THEN base \o << [name |-> "log", series |-> series],
                        [name |-> "log_diff", series |-> DiffDropna(series)] >>
        ELSE base

\* The dict of candidates, in insertion order.
Transformations(series) ==
    LET base == << [name |-> "original", series |-> series],
                   [name |-> "diff", series |-> DiffDropna(series)] >>
    IN  IF \A i \in 1..Len(series) : Gt0(series[i])
        THEN base \o << [name |-> "log", series |-> LogSeries(series)],
                        [name |-> "log_diff",
                         series |-> DiffDropna(LogSeries(series))] >>
        ELSE base

\* What adfuller followed by kpss can do on one candidate: one of them raises,
\* or both return a p-value.  0.05 itself is among the p-values.
ADF_P == {10, 50}
KPSS_P == {50, 100}
Raises == [raises |-> TRUE, adf_p |-> 0, kpss_p |-> 0]
Returns == {[raises |-> FALSE, adf_p |-> a, kpss_p |-> k] : a \in ADF_P, k \in KPSS_P}
TestOutcomes == {Raises} \cup Returns

\* The state of the loop before its first iteration.
StatStart == [results |-> << >>, selected |-> "", stopped |-> FALSE,
              evaluated |-> << >>, raised |-> {}]

StatBody_NoBreak(acc, name, o) ==
    IF o.raises
    THEN [acc EXCEPT !.evaluated = Append(@, name), !.raised = @ \cup {name}]
    ELSE LET adf_stationary == o.adf_p < Alpha
             kpss_stationary == o.kpss_p > Alpha
             entry == [ADF |-> [p_value |-> o.adf_p, Stationary |-> adf_stationary],
                       KPSS |-> [p_value |-> o.kpss_p, Stationary |-> kpss_stationary]]
         IN  [acc EXCEPT !.results = (name :> entry) @@ @,
                         !.evaluated = Append(@, name),
                         !.selected = IF adf_stationary /\ kpss_stationary
                                      THEN name ELSE @]

StatBody_RaiseAborts(acc, name, o) ==
    IF o.raises
    THEN [acc EXCEPT !.evaluated = Append(@, name), !.raised = @ \cup {name},
                     !.stopped = TRUE]
    ELSE LET adf_stationary == o.adf_p < Alpha
             kpss_stationary == o.kpss_p > Alpha
             entry == [ADF |-> [p_value |-> o.adf_p, Stationary |-> adf_stationary],
                       KPSS |-> [p_value |-> o.kpss_p, Stationary |-> kpss_stationary]]
         IN  [acc EXCEPT !.results = (name :> entry) @@ @,
                         !.evaluated = Append(@, name),
                         !.selected = IF adf_stationary /\ kpss_stationary
                                      THEN name ELSE @,
                         !.stopped = adf_stationary /\ kpss_stationary]

\* One iteration of the loop over the candidates: the try block and its except.
\* evaluated and raised are history: the candidates the tests were started on,
\* and those on which they raised.
StatBody(acc, name, o) ==
    IF o.raises
    THEN [acc EXCEPT !.evaluated = Append(@, name), !.raised = @ \cup {name}]
    ELSE LET adf_stationary == o.adf_p < Alpha
             kpss_stationary == o.kpss_p > Alpha
             entry == [ADF |-> [p_value |-> o.adf_p, Stationary |-> adf_stationary],
                       KPSS |-> [p_value |-> o.kpss_p, Stationary |-> kpss_stationary]]
         IN  [acc EXCEPT !.results = (name :> entry) @@ @,
                         !.evaluated = Append(@, name),
                         !.selected = IF adf_stationary /\ kpss_stationary
                                      THEN name ELSE @,
                         !.stopped = adf_stationary /\ kpss_stationary]

SeriesOf(transformations, name) ==
    LET i == CHOOSE j \in 1..Len(transformations) : transformations[j].name = name
    IN  transformations[i].series

StatFinish_DefaultLast(transformations, acc) ==
    LET selected == IF acc.selected = ""
                    THEN transformations[Len(transformations)].name
                    ELSE acc.selected
    IN  [transformation |-> selected,
         series |-> SeriesOf(transformations, selected),
         results |-> acc.results]

\* After the loop: the default, and the returned dict.
StatFinish(transformations, acc) ==
    LET selected == IF acc.selected = "" THEN "original" ELSE acc.selected
    IN  [transformation |-> selected,
         series |-> SeriesOf(transformations, selected),
         results |-> acc.results]

RECURSIVE StatLoop(_, _, _, _)
StatLoop(transformations, i, oracle, acc) ==
    IF i > Len(transformations) \/ acc.stopped
    THEN acc
    ELSE StatLoop(transformations, i + 1, oracle,
                  StatBody(acc, transformations[i].name,
                           oracle[transformations[i].name]))

\* The whole call, the library's behaviour on each candidate given by oracle.
run_stationarity_tests(series, oracle) ==
    IF HasNullOrInf(series)
    THEN None
    ELSE StatFinish(Transformations(series),
                    StatLoop(Transformations(series), 1, oracle, StatStart))

\* History of the same call: the candidates the tests were started on.
StatTrace(series, oracle) ==
    IF HasNullOrInf(series)
    THEN << >>
    ELSE StatLoop(Transformations(series), 1, oracle, StatStart).evaluated

(***************************************************************************)
(* The classifier on its own: one call on a series drawn from the bounded  *)
(* inputs, one action per step of the function.                            *)
(***************************************************************************)
Values == {NaN, Inf, Num(0 - 1000), Num(0), Num(1000), Num(2000)}
SeriesInputs == UNION {[1..n -> Values] : n \in 1..MaxLen}

StatIdle == [pc |-> "idle", series |-> << >>, transformations |-> << >>,
             i |-> 0, acc |-> StatStart, ret |-> None]

\* Lines 62-72: the NaN/inf rejection, the candidates, the empty results.
StatEnter ==
    /\ stat.pc = "call"
    /\ stat' = IF HasNullOrInf(stat.series)
               THEN [stat EXCEPT !.pc = "ret", !.ret = None]
               ELSE [stat EXCEPT !.pc = "loop", !.i = 1,
                                 !.transformations = Transformations(stat.series)]
    /\ UNCHANGED pipe_vars

\* Lines 73-85: an iteration in which adfuller and kpss both return.
StatTest ==
    /\ stat.pc = "loop"
    /\ stat.i <= Len(stat.transformations)
    /\ ~stat.acc.stopped
    /\ \E o \in Returns :
         stat' = [stat EXCEPT !.acc = StatBody(@, stat.transformations[stat.i].name, o),
                              !.i = @ + 1]
    /\ UNCHANGED pipe_vars

\* Lines 73-76, 86-87: an iteration in which adfuller or kpss raises.
StatTestRaises ==
    /\ stat.pc = "loop"
    /\ stat.i <= Len(stat.transformations)
    /\ ~stat.acc.stopped
    /\ stat' = [stat EXCEPT !.acc = StatBody(@, stat.transformations[stat.i].name, Raises),
                            !.i = @ + 1]
    /\ UNCHANGED pipe_vars

\* Lines 88-91: the loop is over (exhausted, or left by break).
StatReturn ==
    /\ stat.pc = "loop"
    /\ stat.i > Len(stat.transformations) \/ stat.acc.stopped
    /\ stat' = [stat EXCEPT !.pc = "ret",
                            !.ret = StatFinish(stat.transformations, stat.acc)]
    /\ UNCHANGED pipe_vars

StatNext == StatEnter \/ StatTest \/ StatTestRaises \/ StatReturn

(***************************************************************************)
(* The input panel.                                                        *)
(***************************************************************************)
\* df.groupby(['commodity', 'exchange_rate_regime']) yields the groups sorted.
AllUnits == << <<"Salt", "North">>, <<"Wheat", "North">>, <<"Wheat", "Unified">> >>
Panel == SubSeq(AllUnits, 1, IF MaxUnits < Len(AllUnits) THEN MaxUnits ELSE Len(AllUnits))
PanelSet == {Panel[k] : k \in 1..Len(Panel)}

\* f"{commodity}_{regime}"
Key(u) == u[1] \o "_" \o u[2]

Fill(n, x) == [i \in 1..n |-> x]
PriceColumns(n) ==
    LET clean == [i \in 1..n |-> Num(IF i % 2 = 1 THEN 1000 ELSE 2000)]
    IN  {clean, [clean EXCEPT ![1] = NaN]}
ConflictColumns(n) ==
    {Fill(n, Num(0)), [Fill(n, Num(0)) EXCEPT ![n] = Inf]}
RowCounts == {MIN_OBSERVATIONS - 1, MIN_OBSERVATIONS}
GroupFrames ==
    UNION {{[usdprice |-> p, conflict_intensity |-> c] :
              p \in PriceColumns(n), c \in ConflictColumns(n)} : n \in RowCounts}

\* len(df)
Rows(df) == Len(df.usdprice)

TooFewRows_AtMost(df) == Rows(df) <= MIN_OBSERVATIONS

\* len(df) < MIN_OBSERVATIONS, the gate of both loops (lines 424 and 150).
TooFewRows(df) == Rows(df) < MIN_OBSERVATIONS

(***************************************************************************)
(* The library as the pipeline sees it.                                    *)
(***************************************************************************)
CandidateNames == {"original", "diff", "log", "log_diff"}
NoneQualifies ==
    [c \in CandidateNames |-> [raises |-> FALSE, adf_p |-> 50, kpss_p |-> 100]]
OriginalRaises ==
    [c \in CandidateNames |->
        IF c = "original" THEN Raises
        ELSE [raises |-> FALSE, adf_p |-> 10, kpss_p |-> 100]]
\* The behaviours of adfuller and kpss on (usdprice, conflict_intensity).  The
\* tests are functions of the series they are given: each unit of the panel
\* has its own behaviour, and the units differ in which of the two series has
\* a candidate that qualifies.
OraclePairs == << << NoneQualifies, OriginalRaises >>,
                  << OriginalRaises, NoneQualifies >> >>
OracleFor(k) == OraclePairs[((k - 1) % Len(OraclePairs)) + 1]

\* engle_granger: raises, or returns a p-value.
EGOutcomes == {[raises |-> TRUE, p_value |-> 0],
               [raises |-> FALSE, p_value |-> 10],
               [raises |-> FALSE, p_value |-> 50]}

\* select_order and VECM.fit: one of the two raises, or lag_order.aic is None
\* or a number and the fit returns.
AicChoices == {0, 1, ECM_LAGS, ECM_LAGS + 1, COINTEGRATION_MAX_LAGS}
FitOutcomes == {[raises |-> TRUE, by |-> r, aic_is_none |-> FALSE, aic |-> 0] :
                   r \in {"select_order", "VECM.fit"}}
               \cup {[raises |-> FALSE, by |-> "", aic_is_none |-> TRUE, aic |-> 0]}
               \cup {[raises |-> FALSE, by |-> "", aic_is_none |-> FALSE, aic |-> a] :
                        a \in AicChoices}

\* jarque_bera's p-value on the residuals.
JarqueBeraP == {100}

\* The residual tests in the order of lines 207-213.
DiagnosticTests == << "acorr_ljungbox", "het_arch", "jarque_bera", "durbin_watson",
                      "het_breuschpagan", "acf", "pacf" >>
DiagnosticNames == {DiagnosticTests[k] : k \in 1..Len(DiagnosticTests)}

Routines == {"run_stationarity_tests", "tests_usdprice",
             "tests_conflict_intensity", "engle_granger",
             "estimate_ecm", "diagnostics", "granger", "irf", "fevd"}
            \cup DiagnosticNames
NoCalls == [r \in Routines |-> [u \in PanelSet |-> 0]]
Called(r, u, n) == [calls EXCEPT ![r][u] = @ + n]
NoFailures == [u \in PanelSet |-> {}]
Failed(r, u) == [failed EXCEPT ![u] = @ \cup {r}]

(***************************************************************************)
(* main(): load_data and the first loop (stationarity and cointegration).  *)
(***************************************************************************)
Unit == Panel[idx]
Df == data[Unit]
CurIdle == [k_ar_diff |-> 0, coint_rank |-> 0, granger_causality |-> << >>]

\* required_columns (line 44)
RequiredColumns == {"date", "commodity", "exchange_rate_regime", "usdprice",
                    "conflict_intensity"}

\* The input file: absent, or present with all required columns or with one
\* of them missing.
CompleteFile == [exists |-> TRUE, columns |-> RequiredColumns]
InputFiles ==
    {[exists |-> FALSE, columns |-> {}], CompleteFile}
    \cup {[exists |-> TRUE, columns |-> RequiredColumns \ {c}] : c \in RequiredColumns}

LoadRaises_OnlyMissingFile(file) == ~file.exists

\* load_data raises: open() fails (line 41), or a required column is missing
\* (lines 45-47); the except of lines 58-60 re-raises.
LoadRaises(file) ==
    \/ ~file.exists
    \/ RequiredColumns \ file.columns # {}

\* load_data returned the groups.
file_ok == ~LoadRaises(input_file)

\* Lines 419-421 and 38-60: load_data raises on a missing file or a missing
\* required column, and main's except (line 446) ends the run.
Load ==
    /\ pc = "load"
    /\ IF ~LoadRaises(input_file)
       THEN pc' = "pass1" /\ idx' = 1 /\ step' = "gate"
       ELSE pc' = "done" /\ UNCHANGED << idx, step >>
    /\ UNCHANGED << sel, par, variant_run, fevd, gc, knn, load, stat, coint,
                    est, failed, rerun, input_file, data, stationarity_results,
                    cointegration_results, all_results, all_diagnostics,
                    all_summaries, all_irfs, all_fevds, cur, summary_report,
                    output, calls >>

\* Lines 424-426: the minimum-observations gate of the first loop.
MainGate ==
    /\ pc = "pass1" /\ step = "gate" /\ idx <= Len(Panel)
    /\ IF TooFewRows(Df)
       THEN idx' = idx + 1 /\ step' = "gate"
       ELSE idx' = idx /\ step' = "stationarity"
    /\ UNCHANGED << sel, par, variant_run, fevd, gc, knn, load, stat, coint,
                    est, failed, rerun, pc, input_file, data,
                    stationarity_results, cointegration_results, all_results,
                    all_diagnostics, all_summaries, all_irfs, all_fevds, cur,
                    summary_report, output, calls >>

\* Lines 427-435: both series are classified, then the unit is dropped when
\* either call returned None.
MainStationarity ==
    /\ pc = "pass1" /\ step = "stationarity"
    /\   LET op == OracleFor(idx)[1]
             oc == OracleFor(idx)[2]
             stationarity_result_usdprice ==
                 run_stationarity_tests(Df.usdprice, op)
             stationarity_result_conflict ==
                 run_stationarity_tests(Df.conflict_intensity, oc)
         IN  /\ calls' = [calls EXCEPT
                    !["run_stationarity_tests"][Unit] = @ + 2,
                    !["tests_usdprice"][Unit] =
                        @ + Len(StatTrace(Df.usdprice, op)),
                    !["tests_conflict_intensity"][Unit] =
                        @ + Len(StatTrace(Df.conflict_intensity, oc))]
             /\ IF IsNone(stationarity_result_usdprice)
                   \/ IsNone(stationarity_result_conflict)
                THEN /\ idx' = idx + 1 /\ step' = "gate"
                     /\ UNCHANGED stationarity_results
                ELSE /\ stationarity_results' =
                          (Key(Unit) :> [usdprice |-> stationarity_result_usdprice,
                                         conflict_intensity |-> stationarity_result_conflict])
                          @@ stationarity_results
                     /\ idx' = idx /\ step' = "cointegration"
    /\ UNCHANGED << sel, par, variant_run, fevd, gc, knn, load, stat, coint,
                    est, failed, rerun, pc, input_file, data,
                    cointegration_results, all_results, all_diagnostics,
                    all_summaries, all_irfs, all_fevds, cur, summary_report,
                    output >>

\* pd.concat([price_series, conflict_series], axis=1, join='inner'): the index
\* labels the two series share.  A series is a function from its index labels
\* to its values; the columns of one DataFrame share the labels 1..len(df).
CombinedIndex(price_series, conflict_series) ==
    DOMAIN price_series \cap DOMAIN conflict_series

InsufficientAligned_OnlyEmpty(price_series, conflict_series) ==
    CombinedIndex(price_series, conflict_series) = {}

\* combined_df.empty or len(combined_df) < 2 (line 96)
InsufficientAligned(price_series, conflict_series) ==
    \/ CombinedIndex(price_series, conflict_series) = {}
    \/ Cardinality(CombinedIndex(price_series, conflict_series)) < 2

\* Lines 93-114.
run_cointegration_tests(price_series, conflict_series, st, eg) ==
    IF InsufficientAligned(price_series, conflict_series)
    THEN None
    ELSE IF eg.raises
    THEN None
    ELSE [engle_granger |-> [p_value |-> eg.p_value,
                             cointegrated |-> eg.p_value < Alpha],
          price_transformation |-> st.usdprice.transformation,
          conflict_transformation |-> st.conflict_intensity.transformation]

\* Whether engle_granger is reached at all (line 103).
ReachesEngleGranger(price_series, conflict_series) ==
    ~InsufficientAligned(price_series, conflict_series)

\* Lines 436-441.
MainCointegration ==
    /\ pc = "pass1" /\ step = "cointegration"
    /\ \E eg \in EGOutcomes :
         LET cointegration_result ==
                 run_cointegration_tests(Df.usdprice, Df.conflict_intensity,
                                         stationarity_results[Key(Unit)], eg)
         IN  /\ cointegration_results' =
                    IF IsNone(cointegration_result)
                    THEN cointegration_results
                    ELSE (Key(Unit) :> cointegration_result) @@ cointegration_results
             /\ calls' = IF ReachesEngleGranger(Df.usdprice, Df.conflict_intensity)
                         THEN Called("engle_granger", Unit, 1) ELSE calls
    /\ idx' = idx + 1 /\ step' = "gate"
    /\ UNCHANGED << sel, par, variant_run, fevd, gc, knn, load, stat, coint,
                    est, failed, rerun, pc, input_file, data,
                    stationarity_results, all_results, all_diagnostics,
                    all_summaries, all_irfs, all_fevds, cur, summary_report,
                    output >>

MainLoopEnd_Early ==
    /\ pc = "pass1" /\ step = "gate" /\ idx >= Len(Panel)
    /\ pc' = "pass2" /\ idx' = 1
    /\ UNCHANGED << sel, par, variant_run, fevd, gc, knn, load, stat, coint,
                    est, failed, rerun, step, input_file, data,
                    stationarity_results, cointegration_results, all_results,
                    all_diagnostics, all_summaries, all_irfs, all_fevds, cur,
                    summary_report, output, calls >>

\* Line 442: the first loop is over, run_ecm_analysis starts (line 146).
MainLoopEnd ==
    /\ pc = "pass1" /\ step = "gate" /\ idx > Len(Panel)
    /\ pc' = "pass2" /\ idx' = 1
    /\ UNCHANGED << sel, par, variant_run, fevd, gc, knn, load, stat, coint,
                    est, failed, rerun, step, input_file, data,
                    stationarity_results, cointegration_results, all_results,
                    all_diagnostics, all_summaries, all_irfs, all_fevds, cur,
                    summary_report, output, calls >>

(***************************************************************************)
(* run_cointegration_tests on its own: one call on two series drawn from   *)
(* the bounded inputs, then the caller's store of lines 437-441.           *)
(***************************************************************************)
\* A pandas Series with its index: labels among 1..MaxIndex, float values.
IndexedSeries == UNION {[I -> {Num(1000), Num(2000)}] : I \in SUBSET (1..MaxIndex)}

\* The stationarity entry of the unit as main passes it in (line 436).
StationarityOf(price_transformation) ==
    [usdprice |-> [transformation |-> price_transformation],
     conflict_intensity |-> [transformation |-> "original"]]

CointUnit == AllUnits[1]

CointIdle == [pc |-> "idle", price_series |-> << >>, conflict_series |-> << >>,
              st |-> StationarityOf("original"), ret |-> None, eg_calls |-> 0]

\* Lines 93-114: the call; eg_calls is history (line 103 was reached).
CointCall ==
    /\ coint.pc = "call"
    /\ \E eg \in EGOutcomes :
         coint' = [coint EXCEPT
                     !.pc = "store",
                     !.ret = run_cointegration_tests(coint.price_series,
                                                     coint.conflict_series,
                                                     coint.st, eg),
                     !.eg_calls = IF ReachesEngleGranger(coint.price_series,
                                                         coint.conflict_series)
                                  THEN @ + 1 ELSE @]
    /\ UNCHANGED << sel, par, variant_run, fevd, gc, knn, load, stat, est,
                    failed, rerun, pc, step, idx, input_file, data,
                    stationarity_results, cointegration_results, all_results,
                    all_diagnostics, all_summaries, all_irfs, all_fevds, cur,
                    summary_report, output, calls >>

\* Lines 437-441: a result is stored under the unit's key, None is not.
CointStore ==
    /\ coint.pc = "store"
    /\ cointegration_results' =
           IF IsNone(coint.ret)
           THEN cointegration_results
           ELSE (Key(CointUnit) :> coint.ret) @@ cointegration_results
    /\ coint' = [coint EXCEPT !.pc = "stored"]
    /\ UNCHANGED << sel, par, variant_run, fevd, gc, knn, load, stat, est,
                    failed, rerun, pc, step, idx, input_file, data,
                    stationarity_results, all_results, all_diagnostics,
                    all_summaries, all_irfs, all_fevds, cur, summary_report,
                    output, calls >>

CointNext == CointCall \/ CointStore

(***************************************************************************)
(* run_ecm_analysis: the second loop.                                      *)
(***************************************************************************)
Min(a, b) == IF a < b THEN a ELSE b
Max(a, b) == IF a > b THEN a ELSE b

\* y = df['usdprice'].dropna(), x = df[['conflict_intensity']].dropna(),
\* y.align(x, join='inner'): the rows where neither is null (lines 161-162).
AlignedLen(df) ==
    Cardinality({i \in 1..Rows(df) :
                   ~IsNull(df.usdprice[i]) /\ ~IsNull(df.conflict_intensity[i])})

EcmGatePasses_IgnoresFlag ==
    /\ ~TooFewRows(Df)
    /\ Key(Unit) \in DOMAIN stationarity_results
    /\ ~(AlignedLen(Df) < MIN_OBSERVATIONS)

\* Lines 150-165: the four checks that each end the iteration with continue.
EcmGatePasses ==
    /\ ~TooFewRows(Df)
    /\ Key(Unit) \in DOMAIN stationarity_results
    /\ Key(Unit) \in DOMAIN cointegration_results
    /\ cointegration_results[Key(Unit)].engle_granger.cointegrated
    /\ ~(AlignedLen(Df) < MIN_OBSERVATIONS)

EcmGate ==
    /\ pc = "pass2" /\ step = "gate" /\ idx <= Len(Panel)
    /\ IF EcmGatePasses
       THEN idx' = idx /\ step' = "estimate"
       ELSE idx' = idx + 1 /\ step' = "gate"
    /\ UNCHANGED << sel, par, variant_run, fevd, gc, knn, load, stat, coint,
                    est, failed, rerun, pc, input_file, data,
                    stationarity_results, cointegration_results, all_results,
                    all_diagnostics, all_summaries, all_irfs, all_fevds, cur,
                    summary_report, output, calls >>

OptimalLags_NoFloor(o, ecm_lags) ==
    LET optimal_lags == IF o.aic_is_none THEN ecm_lags ELSE o.aic
    IN  Min(optimal_lags, ecm_lags)

\* Lines 123-124: the lag order the VECM is fitted with.
OptimalLags(o, ecm_lags) ==
    LET optimal_lags == IF o.aic_is_none THEN ecm_lags ELSE o.aic
    IN  Max(1, Min(optimal_lags, ecm_lags))

\* VECM(..., coint_rank=1, ...) (line 125)
CointRank == 1

EcmEstimate_Propagates ==
    /\ pc = "pass2" /\ step = "estimate"
    /\ calls' = Called("estimate_ecm", Unit, 1)
    /\ \E o \in FitOutcomes :
         IF o.raises
         THEN /\ pc' = "done" /\ idx' = idx /\ step' = step /\ cur' = CurIdle
              /\ failed' = Failed(o.by, Unit)
         ELSE /\ idx' = idx /\ step' = "postfit" /\ pc' = pc
              /\ cur' = [cur EXCEPT !.k_ar_diff = OptimalLags(o, ECM_LAGS),
                                    !.coint_rank = CointRank]
              /\ failed' = failed
    /\ UNCHANGED << sel, par, variant_run, fevd, gc, knn, load, stat, coint,
                    est, rerun, input_file, data, stationarity_results,
                    cointegration_results, all_results, all_diagnostics,
                    all_summaries, all_irfs, all_fevds, summary_report,
                    output >>

EcmEstimate_FallsThrough ==
    /\ pc = "pass2" /\ step = "estimate"
    /\ calls' = Called("estimate_ecm", Unit, 1)
    /\ \E o \in FitOutcomes :
         IF o.raises
         THEN /\ idx' = idx /\ step' = "postfit" /\ cur' = CurIdle
              /\ failed' = Failed(o.by, Unit)
         ELSE /\ idx' = idx /\ step' = "postfit"
              /\ cur' = [cur EXCEPT !.k_ar_diff = OptimalLags(o, ECM_LAGS),
                                    !.coint_rank = CointRank]
              /\ failed' = failed
    /\ UNCHANGED << sel, par, variant_run, fevd, gc, knn, load, stat, coint,
                    est, rerun, pc, input_file, data, stationarity_results,
                    cointegration_results, all_results, all_diagnostics,
                    all_summaries, all_irfs, all_fevds, summary_report,
                    output >>

EcmEstimate_Retries ==
    /\ pc = "pass2" /\ step = "estimate"
    /\ calls' = Called("estimate_ecm", Unit, 1)
    /\ \E o \in FitOutcomes :
         IF o.raises
         THEN /\ idx' = idx /\ step' = "estimate" /\ cur' = CurIdle
              /\ failed' = Failed(o.by, Unit)
         ELSE /\ idx' = idx /\ step' = "postfit"
              /\ cur' = [cur EXCEPT !.k_ar_diff = OptimalLags(o, ECM_LAGS),
                                    !.coint_rank = CointRank]
              /\ failed' = failed
    /\ UNCHANGED << sel, par, variant_run, fevd, gc, knn, load, stat, coint,
                    est, rerun, pc, input_file, data, stationarity_results,
                    cointegration_results, all_results, all_diagnostics,
                    all_summaries, all_irfs, all_fevds, summary_report,
                    output >>

\* Lines 167-171 and 116-130: estimate_ecm re-raises what select_order or
\* VECM.fit raised, the caller's except skips the unit.
EcmEstimate ==
    /\ pc = "pass2" /\ step = "estimate"
    /\ calls' = Called("estimate_ecm", Unit, 1)
    /\ \E o \in FitOutcomes :
         IF o.raises
         THEN /\ idx' = idx + 1 /\ step' = "gate" /\ cur' = CurIdle
              /\ failed' = Failed(o.by, Unit)
         ELSE /\ idx' = idx /\ step' = "postfit"
              /\ cur' = [cur EXCEPT !.k_ar_diff = OptimalLags(o, ECM_LAGS),
                                    !.coint_rank = CointRank]
              /\ failed' = failed
    /\ UNCHANGED << sel, par, variant_run, fevd, gc, knn, load, stat, coint,
                    est, rerun, pc, input_file, data, stationarity_results,
                    cointegration_results, all_results, all_diagnostics,
                    all_summaries, all_irfs, all_fevds, summary_report,
                    output >>

\* Lines 173-205: the regression record, the criteria and the summary text;
\* an exception before line 191 goes to the except of line 311, empty or
\* misaligned residuals end the iteration after the summary was appended.
EcmPostFit ==
    /\ pc = "pass2" /\ step = "postfit"
    /\ \E o \in {"raises", "no residuals", "ok"} :
         /\ all_summaries' =
                IF o = "raises" THEN all_summaries
                ELSE Append(all_summaries,
                            [commodity |-> Unit[1], regime |-> Unit[2],
                             summary |-> "text"])
         /\ IF o = "ok"
            THEN idx' = idx /\ step' = "diagnostics" /\ cur' = cur
            ELSE idx' = idx + 1 /\ step' = "gate" /\ cur' = CurIdle
    /\ UNCHANGED << sel, par, variant_run, fevd, gc, knn, load, stat, coint,
                    est, failed, rerun, pc, input_file, data,
                    stationarity_results, cointegration_results, all_results,
                    all_diagnostics, all_irfs, all_fevds, summary_report,
                    output, calls >>

\* The record of lines 214-225; every value is a float of the library.
Diagnostic(u, jb) ==
    [commodity |-> u[1], regime |-> u[2],
     breusch_godfrey_pvalue |-> "float", arch_test_pvalue |-> "float",
     jarque_bera_pvalue |-> jb, breusch_pagan_lm_stat |-> "float",
     breusch_pagan_pvalue |-> "float", durbin_watson_stat |-> "float",
     skewness |-> "float", kurtosis |-> "float",
     acf |-> "list", pacf |-> "list"]

\* The tests of the try block that were called when the block is left: all of
\* them, or those up to and including the one that raised.
TestsCalled(raising) ==
    IF raising = "none" THEN DiagnosticNames
    ELSE LET k == CHOOSE j \in 1..Len(DiagnosticTests) : DiagnosticTests[j] = raising
         IN  {DiagnosticTests[j] : j \in 1..k}

\* Lines 206-229: one try block around all seven tests; the except of line 227
\* ends the iteration.
\* The diagnostics step without the continue of line 229.
EcmDiagnostics_FallsThrough ==
    /\ pc = "pass2" /\ step = "diagnostics"
    /\ \E raising \in {"none"} \cup DiagnosticNames, jb \in JarqueBeraP :
         /\ calls' = [r \in Routines |->
                         IF r = "diagnostics" \/ r \in TestsCalled(raising)
                         THEN [calls[r] EXCEPT ![Unit] = @ + 1]
                         ELSE calls[r]]
         /\ IF raising # "none"
            THEN /\ failed' = Failed(raising, Unit)
                 /\ UNCHANGED all_diagnostics
            ELSE /\ all_diagnostics' = Append(all_diagnostics, Diagnostic(Unit, jb))
                 /\ failed' = failed
         /\ idx' = idx /\ step' = "granger" /\ cur' = cur
    /\ UNCHANGED << sel, par, variant_run, fevd, gc, knn, load, stat, coint,
                    est, rerun, pc, input_file, data, stationarity_results,
                    cointegration_results, all_results, all_summaries,
                    all_irfs, all_fevds, summary_report, output >>

EcmDiagnostics ==
    /\ pc = "pass2" /\ step = "diagnostics"
    /\ \E raising \in {"none"} \cup DiagnosticNames, jb \in JarqueBeraP :
         /\ calls' = [r \in Routines |->
                         IF r = "diagnostics" \/ r \in TestsCalled(raising)
                         THEN [calls[r] EXCEPT ![Unit] = @ + 1]
                         ELSE calls[r]]
         /\ IF raising # "none"
            THEN /\ idx' = idx + 1 /\ step' = "gate" /\ cur' = CurIdle
                 /\ failed' = Failed(raising, Unit)
                 /\ UNCHANGED all_diagnostics
            ELSE /\ all_diagnostics' = Append(all_diagnostics, Diagnostic(Unit, jb))
                 /\ idx' = idx /\ step' = "granger" /\ cur' = cur
                 /\ failed' = failed
    /\ UNCHANGED << sel, par, variant_run, fevd, gc, knn, load, stat, coint,
                    est, rerun, pc, input_file, data, stationarity_results,
                    cointegration_results, all_results, all_summaries,
                    all_irfs, all_fevds, summary_report, output >>

GrangerMaxLag_NoCeiling(len_y) == Max(len_y \div 5, 1)

\* Line 231.
GrangerMaxLag(len_y) == Min(COINTEGRATION_MAX_LAGS, Max(len_y \div 5, 1))

\* Lines 231-252: per regressor column, the lags tested, or {} on failure.
EcmGranger ==
    /\ pc = "pass2" /\ step = "granger"
    /\ calls' = Called("granger", Unit, 1)
    /\ \E raises \in BOOLEAN :
         /\ cur' = [cur EXCEPT !.granger_causality =
                      [conflict_intensity |->
                          IF raises THEN {} ELSE 1..GrangerMaxLag(AlignedLen(Df))]]
         /\ failed' = IF raises THEN Failed("granger", Unit) ELSE failed
    /\ step' = "irf"
    /\ UNCHANGED << sel, par, variant_run, fevd, gc, knn, load, stat, coint,
                    est, rerun, pc, idx, input_file, data,
                    stationarity_results, cointegration_results, all_results,
                    all_diagnostics, all_summaries, all_irfs, all_fevds,
                    summary_report, output >>

\* Lines 254-265.
EcmIrf_SkipsUnit ==
    /\ pc = "pass2" /\ step = "irf"
    /\ calls' = Called("irf", Unit, 1)
    /\ \E raises \in BOOLEAN :
         IF raises
         THEN /\ failed' = Failed("irf", Unit)
              /\ idx' = idx + 1 /\ step' = "gate" /\ cur' = CurIdle
              /\ UNCHANGED all_irfs
         ELSE /\ all_irfs' = Append(all_irfs,
                                    [commodity |-> Unit[1], regime |-> Unit[2],
                                     impulse_response |-> "irf_data"])
              /\ failed' = failed
              /\ idx' = idx /\ step' = "fevd" /\ cur' = cur
    /\ UNCHANGED << sel, par, variant_run, fevd, gc, knn, load, stat, coint,
                    est, rerun, pc, input_file, data, stationarity_results,
                    cointegration_results, all_results, all_diagnostics,
                    all_summaries, all_fevds, summary_report, output >>

\* Lines 254-265.
EcmIrf ==
    /\ pc = "pass2" /\ step = "irf"
    /\ calls' = Called("irf", Unit, 1)
    /\ \E raises \in BOOLEAN :
         /\ all_irfs' = Append(all_irfs,
                               [commodity |-> Unit[1], regime |-> Unit[2],
                                impulse_response |->
                                    IF raises THEN "None" ELSE "irf_data"])
         /\ failed' = IF raises THEN Failed("irf", Unit) ELSE failed
    /\ idx' = idx /\ step' = "fevd" /\ cur' = cur
    /\ UNCHANGED << sel, par, variant_run, fevd, gc, knn, load, stat, coint,
                    est, rerun, pc, input_file, data, stationarity_results,
                    cointegration_results, all_results, all_diagnostics,
                    all_summaries, all_fevds, summary_report, output >>

\* Lines 267-284.
EcmFevd ==
    /\ pc = "pass2" /\ step = "fevd"
    /\ calls' = Called("fevd", Unit, 1)
    /\ \E raises \in BOOLEAN :
         /\ all_fevds' = Append(all_fevds,
                                [commodity |-> Unit[1], regime |-> Unit[2],
                                 forecast_error_variance_decomposition |->
                                     IF raises THEN "None" ELSE "fevd_data"])
         /\ failed' = IF raises THEN Failed("fevd", Unit) ELSE failed
    /\ step' = "append"
    /\ UNCHANGED << sel, par, variant_run, fevd, gc, knn, load, stat, coint,
                    est, rerun, pc, idx, input_file, data,
                    stationarity_results, cointegration_results, all_results,
                    all_diagnostics, all_summaries, all_irfs, cur,
                    summary_report, output >>

\* The record of lines 295-309.
Result(u, c) ==
    [commodity |-> u[1], regime |-> u[2],
     coefficients |-> "fitted", speed_of_adjustment |-> "fitted",
     cointegration_vector |-> "fitted", short_run_coefficients |-> "fitted",
     granger_causality |-> c.granger_causality,
     optimal_lags |-> c.k_ar_diff,
     fit_metrics |-> "computed",
     residuals |-> "list", fitted_values |-> "list",
     regression |-> [coint_rank |-> c.coint_rank, k_ar_diff |-> c.k_ar_diff]]

\* Lines 286-310: the result record is appended, the iteration is over.
EcmAppend ==
    /\ pc = "pass2" /\ step = "append"
    /\ all_results' = Append(all_results, Result(Unit, cur))
    /\ idx' = idx + 1 /\ step' = "gate" /\ cur' = CurIdle
    /\ UNCHANGED << sel, par, variant_run, fevd, gc, knn, load, stat, coint,
                    est, failed, rerun, pc, input_file, data,
                    stationarity_results, cointegration_results,
                    all_diagnostics, all_summaries, all_irfs, all_fevds,
                    summary_report, output, calls >>

\* Line 314: run_ecm_analysis returns its five lists.
EcmLoopEnd ==
    /\ pc = "pass2" /\ step = "gate" /\ idx > Len(Panel)
    /\ pc' = "summary"
    /\ UNCHANGED << sel, par, variant_run, fevd, gc, knn, load, stat, coint,
                    est, failed, rerun, step, idx, input_file, data,
                    stationarity_results, cointegration_results, all_results,
                    all_diagnostics, all_summaries, all_irfs, all_fevds, cur,
                    summary_report, output, calls >>

(***************************************************************************)
(* estimate_ecm on its own: one call with a configured ecm_lags, then the  *)
(* result record of lines 296-309 built from the fitted model.             *)
(***************************************************************************)
\* What select_order(endog, max_lags) can report as lag_order.aic: None, or an
\* order in 0..max_lags.
LagOrders ==
    {[raises |-> FALSE, aic_is_none |-> TRUE, aic |-> 0]}
    \cup {[raises |-> FALSE, aic_is_none |-> FALSE, aic |-> a] :
             a \in 0..COINTEGRATION_MAX_LAGS}

EstIdle == [pc |-> "idle", ecm_lags |-> ECM_LAGS,
            lag_order |-> [raises |-> FALSE, aic_is_none |-> TRUE, aic |-> 0],
            k_ar_diff |-> 0, coint_rank |-> 0, raised |-> FALSE,
            result |-> EmptyDict]

\* Line 122: select_order returns, or raises (lines 128-130 re-raise, the
\* caller's except of lines 169-171 skips the unit).
EstSelectOrder ==
    /\ est.pc = "call"
    /\ \/ \E o \in LagOrders : est' = [est EXCEPT !.pc = "selected", !.lag_order = o]
       \/ est' = [est EXCEPT !.pc = "skipped", !.raised = TRUE]
    /\ UNCHANGED << sel, par, variant_run, fevd, gc, knn, load, stat, coint,
                    failed, rerun, pc, step, idx, input_file, data,
                    stationarity_results, cointegration_results, all_results,
                    all_diagnostics, all_summaries, all_irfs, all_fevds, cur,
                    summary_report, output, calls >>

\* Lines 123-127: the clamp, the model, the fit (which may raise).
EstFit ==
    /\ est.pc = "selected"
    /\ \E raises \in BOOLEAN :
         est' = IF raises
                THEN [est EXCEPT !.pc = "skipped", !.raised = TRUE]
                ELSE [est EXCEPT !.pc = "fitted",
                                 !.k_ar_diff = OptimalLags(est.lag_order, est.ecm_lags),
                                 !.coint_rank = CointRank]
    /\ UNCHANGED << sel, par, variant_run, fevd, gc, knn, load, stat, coint,
                    failed, rerun, pc, step, idx, input_file, data,
                    stationarity_results, cointegration_results, all_results,
                    all_diagnostics, all_summaries, all_irfs, all_fevds, cur,
                    summary_report, output, calls >>

\* Lines 296-309: optimal_lags and regression report the fitted model.
EstReport ==
    /\ est.pc = "fitted"
    /\ est' = [est EXCEPT !.pc = "reported",
                          !.result = Result(CointUnit,
                                            [k_ar_diff |-> est.k_ar_diff,
                                             coint_rank |-> est.coint_rank,
                                             granger_causality |-> EmptyDict])]
    /\ UNCHANGED << sel, par, variant_run, fevd, gc, knn, load, stat, coint,
                    failed, rerun, pc, step, idx, input_file, data,
                    stationarity_results, cointegration_results, all_results,
                    all_diagnostics, all_summaries, all_irfs, all_fevds, cur,
                    summary_report, output, calls >>

EstNext == EstSelectOrder \/ EstFit \/ EstReport

(***************************************************************************)
(* create_summary_report and save_results.                                 *)
(***************************************************************************)
\* datetime.now().strftime('%Y%m%d_%H%M%S') (line 25): the clock readings two
\* runs can get, the same second or a later one.
Clock == << "20240101_120000", "20240101_120001" >>

create_summary_report_StampsDatasets(ecm_results, diagnostics, timestamp) ==
    [timestamp |-> timestamp,
     total_datasets |-> Len(ecm_results),
     successful_ecm_estimations |-> Len(ecm_results),
     diagnostics_passed |->
         Cardinality({i \in 1..Len(diagnostics) :
                        diagnostics[i].jarque_bera_pvalue > Alpha}),
     datasets |->
         [i \in 1..Min(Len(ecm_results), Len(diagnostics)) |->
             [commodity |-> ecm_results[i].commodity,
              regime |-> ecm_results[i].regime,
              optimal_lags |-> ecm_results[i].optimal_lags,
              granger_causality_tests |-> ecm_results[i].granger_causality,
              jarque_bera_pvalue |-> diagnostics[i].jarque_bera_pvalue,
              diagnostics_of |-> << diagnostics[i].commodity,
                                    diagnostics[i].regime >>,
              timestamp |-> timestamp]]]

\* Lines 383-411, with the module's timestamp (line 25) as a parameter.  zip
\* pairs the two lists by position.
create_summary_report(ecm_results, diagnostics, timestamp) ==
    [timestamp |-> timestamp,
     total_datasets |-> Len(ecm_results),
     successful_ecm_estimations |-> Len(ecm_results),
     diagnostics_passed |->
         Cardinality({i \in 1..Len(diagnostics) :
                        diagnostics[i].jarque_bera_pvalue > Alpha}),
     datasets |->
         [i \in 1..Min(Len(ecm_results), Len(diagnostics)) |->
             [commodity |-> ecm_results[i].commodity,
              regime |-> ecm_results[i].regime,
              optimal_lags |-> ecm_results[i].optimal_lags,
              granger_causality_tests |-> ecm_results[i].granger_causality,
              jarque_bera_pvalue |-> diagnostics[i].jarque_bera_pvalue,
              diagnostics_of |-> << diagnostics[i].commodity,
                                    diagnostics[i].regime >>]]]

\* Line 443.  The timestamp was read when the module was imported; this is its
\* first use, and the model draws it here, for this run and for a second run
\* on the same input.  The statistics library is a function of its input, so
\* the second run computes the same five lists; it is followed only where the
\* clock can make it differ, in the documents it writes.
Summary ==
    /\ pc = "summary"
    /\ \E first \in 1..Len(Clock) :
         \E second \in first..Len(Clock) :
            /\ summary_report' =
                   create_summary_report(all_results, all_diagnostics, Clock[first])
            /\ rerun' = [rerun EXCEPT !.summary_report =
                   create_summary_report(all_results, all_diagnostics, Clock[second])]
    /\ pc' = "save"
    /\ UNCHANGED << sel, par, variant_run, fevd, gc, knn, load, stat, coint,
                    est, failed, step, idx, input_file, data,
                    stationarity_results, cointegration_results, all_results,
                    all_diagnostics, all_summaries, all_irfs, all_fevds, cur,
                    output, calls >>

\* next((d for d in records if d['commodity'] == ... and d['regime'] == ...), default)
FirstOf(records, commodity, regime, default) ==
    LET hits == {i \in 1..Len(records) :
                   records[i].commodity = commodity /\ records[i].regime = regime}
    IN  IF hits = {} THEN default
        ELSE records[CHOOSE i \in hits : \A j \in hits : i <= j]

\* d.get(key, default)
Get(d, key, default) == IF key \in DOMAIN d THEN d[key] ELSE default

UnitRecord_NoFevds(result, diagnostics, summaries, irfs, fevds, st, co) ==
    LET commodity == result.commodity
        regime == result.regime
    IN  [ecm_results |-> result,
         diagnostics |-> FirstOf(diagnostics, commodity, regime, EmptyDict),
         summaries |-> FirstOf(summaries, commodity, regime, EmptyDict),
         irfs |-> FirstOf(irfs, commodity, regime, EmptyDict),
         stationarity_results |-> Get(st, commodity \o "_" \o regime, EmptyDict),
         cointegration_results |-> Get(co, commodity \o "_" \o regime, EmptyDict)]

\* Lines 352-360: the record of one unit.
UnitRecord(result, diagnostics, summaries, irfs, fevds, st, co) ==
    LET commodity == result.commodity
        regime == result.regime
    IN  [ecm_results |-> result,
         diagnostics |-> FirstOf(diagnostics, commodity, regime, EmptyDict),
         summaries |-> FirstOf(summaries, commodity, regime, EmptyDict),
         irfs |-> FirstOf(irfs, commodity, regime, EmptyDict),
         fevds |-> FirstOf(fevds, commodity, regime, EmptyDict),
         stationarity_results |-> Get(st, commodity \o "_" \o regime, EmptyDict),
         cointegration_results |-> Get(co, commodity \o "_" \o regime, EmptyDict)]

\* consolidated_results[commodity][regime] = record (lines 350-352)
Put(consolidated, commodity, regime, record) ==
    (commodity :> ((regime :> record) @@ Get(consolidated, commodity, EmptyDict)))
    @@ consolidated

RECURSIVE Consolidate(_, _, _, _, _, _, _, _, _)
Consolidate_FirstOnly(ecm_results, i, consolidated, diagnostics, summaries, irfs, fevds, st, co) ==
    IF i > Min(1, Len(ecm_results))
    THEN consolidated
    ELSE Put(consolidated, ecm_results[i].commodity, ecm_results[i].regime,
             UnitRecord(ecm_results[i], diagnostics, summaries, irfs, fevds, st, co))

\* Lines 343-360: the loop over ecm_results, from position i on.
Consolidate(ecm_results, i, consolidated, diagnostics, summaries, irfs, fevds, st, co) ==
    IF i > Len(ecm_results)
    THEN consolidated
    ELSE Consolidate(ecm_results, i + 1,
             IF ecm_results[i].commodity = "" \/ ecm_results[i].regime = ""
             THEN consolidated
             ELSE Put(consolidated, ecm_results[i].commodity, ecm_results[i].regime,
                      UnitRecord(ecm_results[i], diagnostics, summaries, irfs,
                                 fevds, st, co)),
             diagnostics, summaries, irfs, fevds, st, co)

NotWritten == [written |-> FALSE, consolidated |-> EmptyDict,
               summary_report |-> EmptyDict]
NoRerun == [summary_report |-> EmptyDict, output |-> NotWritten]

\* Lines 316-373 (line 444 of main): both files are written, by this run and
\* by the second run.
Save ==
    /\ pc = "save"
    /\ output' = [written |-> TRUE,
                  consolidated |->
                      Consolidate(all_results, 1, EmptyDict, all_diagnostics,
                                  all_summaries, all_irfs, all_fevds,
                                  stationarity_results, cointegration_results),
                  summary_report |-> summary_report]
    /\ rerun' = [rerun EXCEPT !.output =
                  [written |-> TRUE,
                   consolidated |->
                      Consolidate(all_results, 1, EmptyDict, all_diagnostics,
                                  all_summaries, all_irfs, all_fevds,
                                  stationarity_results, cointegration_results),
                   summary_report |-> rerun.summary_report]]
    /\ pc' = "done"
    /\ UNCHANGED << sel, par, variant_run, fevd, gc, knn, load, stat, coint,
                    est, failed, step, idx, input_file, data,
                    stationarity_results, cointegration_results, all_results,
                    all_diagnostics, all_summaries, all_irfs, all_fevds, cur,
                    summary_report, calls >>

(***************************************************************************)
(* save_results of the variant 5_data_prepration_for_spatial_chart_new.py. *)
(***************************************************************************)
RequiredFieldsNew == {"ecm_results", "diagnostics", "summaries", "irfs", "fevds",
                      "stationarity_results", "cointegration_results",
                      "granger_causality"}

\* Lines 461-470 of the variant.
UnitRecordNew(result, diagnostics, summaries, irfs, fevds, st, co) ==
    LET commodity == result.commodity
        regime == result.regime
    IN  [ecm_results |-> result,
         diagnostics |-> FirstOf(diagnostics, commodity, regime, EmptyDict),
         summaries |-> FirstOf(summaries, commodity, regime, EmptyDict),
         irfs |-> FirstOf(irfs, commodity, regime,
                          [impulse_response |->
                              [irf |-> << >>, lower |-> << >>, upper |-> << >>]]),
         fevds |-> FirstOf(fevds, commodity, regime,
                           [forecast_error_variance_decomposition |-> << >>]),
         stationarity_results |-> Get(st, commodity \o "_" \o regime, EmptyDict),
         cointegration_results |-> Get(co, commodity \o "_" \o regime, EmptyDict),
         granger_causality |-> Get(result, "granger_causality", EmptyDict)]

\* Lines 473-519 of the variant: a field that is missing or None gets its
\* default (the default of ecm_results is a record of empty values).
EnsureRequired(fields, commodity, regime) ==
    [f \in RequiredFieldsNew \cup DOMAIN fields |->
        IF f \in DOMAIN fields /\ ~IsNone(fields[f])
        THEN fields[f]
        ELSE IF f = "ecm_results"
        THEN [commodity |-> commodity, regime |-> regime,
              granger_causality |-> EmptyDict, optimal_lags |-> 0]
        ELSE EmptyDict]

(***************************************************************************)
(* load_data on its own: the rows of unified_data.json in file order, the  *)
(* groups it returns, and the series main() hands to the tests.            *)
(***************************************************************************)
Markets == {"Aden", "Sanaa"}

\* One market observed in MIN_OBSERVATIONS consecutive months, in date order.
MonthlyBlock ==
    [i \in 1..MIN_OBSERVATIONS |->
        [date |-> MaxDate + i, market_id |-> "Aden",
         commodity |-> AllUnits[1][1], exchange_rate_regime |-> AllUnits[1][2],
         usdprice |-> Num(1000)]]

\* The further rows a file can hold: any unit, either market, an early date.
FurtherRows ==
    [date : 1..MaxDate, market_id : Markets,
     commodity : {AllUnits[1][1]},
     exchange_rate_regime : {"North", "Unified"},
     usdprice : {Num(1000)}]

\* The files: the monthly block with up to MaxRows further rows before it.
RawTables == {head \o MonthlyBlock :
                head \in UNION {[1..n -> FurtherRows] : n \in 0..MaxRows}}

\* The rows of df at the positions in keep, in the order of df.
RowsAt(df, keep) ==
    LET F[i \in 0..Len(df)] ==
            IF i = 0 THEN << >>
            ELSE IF i \in keep THEN Append(F[i - 1], df[i]) ELSE F[i - 1]
    IN  F[Len(df)]

\* df.drop_duplicates() (line 49): of rows equal in every column the first
\* is kept; the order of the rows is not changed.
drop_duplicates(df) ==
    RowsAt(df, {i \in 1..Len(df) : \A j \in 1..(i - 1) : df[j] # df[i]})

\* df.groupby(['commodity', 'exchange_rate_regime']) (line 55): each group
\* holds its rows in the order they have in df.
groupby(df) ==
    LET keys == {<< df[i].commodity, df[i].exchange_rate_regime >> :
                    i \in 1..Len(df)}
    IN  [k \in keys |->
            RowsAt(df, {i \in 1..Len(df) :
                          << df[i].commodity, df[i].exchange_rate_regime >> = k})]

\* df['usdprice'] of a group (lines 427 and 436), each value with the date of
\* its row.
DatedSeries(group_df) ==
    [i \in 1..Len(group_df) |->
        [date |-> group_df[i].date, value |-> group_df[i].usdprice]]

LoadIdle == [pc |-> "idle", raw |-> << >>, df |-> << >>,
             grouped_data |-> EmptyDict, handed |-> EmptyDict]

\* Lines 41-50.
LoadDropDuplicates ==
    /\ load.pc = "read"
    /\ load' = [load EXCEPT !.pc = "deduplicated", !.df = drop_duplicates(load.raw)]
    /\ UNCHANGED << sel, par, variant_run, fevd, gc, knn, ecm_vars >>

\* Lines 51-57.
LoadGroupBy ==
    /\ load.pc = "deduplicated"
    /\ load' = [load EXCEPT !.pc = "grouped", !.grouped_data = groupby(load.df)]
    /\ UNCHANGED << sel, par, variant_run, fevd, gc, knn, ecm_vars >>

\* Lines 422-436: the series of every group that passes the gate of line 424.
LoadHand ==
    /\ load.pc = "grouped"
    /\ load' = [load EXCEPT
                  !.pc = "handed",
                  !.handed =
                      [k \in {g \in DOMAIN load.grouped_data :
                                ~(Len(load.grouped_data[g]) < MIN_OBSERVATIONS)} |->
                          DatedSeries(load.grouped_data[k])]]
    /\ UNCHANGED << sel, par, variant_run, fevd, gc, knn, ecm_vars >>

LoadNext == LoadDropDuplicates \/ LoadGroupBy \/ LoadHand

(***************************************************************************)
(* export_spatial_weights of 5_data_prepration_for_spatial_chart.py on its *)
(* own.  The regions enter through first_connected, the smallest k whose   *)
(* KNN graph is connected (a KNN graph only gains edges as k grows), and   *)
(* the environment through check_raises: whether w.to_networkx() raises.   *)
(***************************************************************************)
\* KNN.from_dataframe(unique_gdf, k=k)
KNN_from_dataframe(k, first_connected) ==
    [k |-> k, connected |-> k >= first_connected]

is_fully_connected_Always(w, check_raises) == TRUE

\* Lines 72-82: nx.is_connected of the graph, False when the check raises.
is_fully_connected(w, check_raises) ==
    IF check_raises THEN FALSE ELSE w.connected

KnnIdle == [pc |-> "idle", initial_k |-> 1, max_k |-> 1, first_connected |-> 1,
            check_raises |-> FALSE, k |-> 0, w |-> None, constructions |-> 0,
            degraded |-> FALSE, exported |-> None, ret |-> None]

KnnIterate_NoBreak ==
    /\ knn.pc = "loop" /\ knn.k <= knn.max_k
    /\ LET w == KNN_from_dataframe(knn.k, knn.first_connected)
       IN  knn' = [knn EXCEPT !.w = w, !.constructions = @ + 1, !.k = @ + 1]
    /\ UNCHANGED << sel, par, variant_run, fevd, gc, load, ecm_vars >>

\* Lines 124-134: one iteration of the while loop; constructions is history.
KnnIterate ==
    /\ knn.pc = "loop" /\ knn.k <= knn.max_k
    /\ LET w == KNN_from_dataframe(knn.k, knn.first_connected)
       IN  knn' = IF is_fully_connected(w, knn.check_raises)
                  THEN [knn EXCEPT !.w = w, !.constructions = @ + 1,
                                   !.pc = "after"]
                  ELSE [knn EXCEPT !.w = w, !.constructions = @ + 1,
                                   !.k = @ + 1]
    /\ UNCHANGED << sel, par, variant_run, fevd, gc, load, ecm_vars >>

\* Line 124: the condition of the while is false.
KnnLoopExit ==
    /\ knn.pc = "loop" /\ ~(knn.k <= knn.max_k)
    /\ knn' = [knn EXCEPT !.pc = "after"]
    /\ UNCHANGED << sel, par, variant_run, fevd, gc, load, ecm_vars >>

\* Lines 136-140: the degraded result, built with k - 1.
KnnFallback ==
    /\ knn.pc = "after"
    /\ knn' = IF knn.k > knn.max_k
              THEN LET k_final == knn.k - 1
                   IN  [knn EXCEPT !.degraded = TRUE,
                                   !.w = KNN_from_dataframe(k_final,
                                                            knn.first_connected),
                                   !.pc = "export"]
              ELSE [knn EXCEPT !.pc = "export"]
    /\ UNCHANGED << sel, par, variant_run, fevd, gc, load, ecm_vars >>

\* Lines 142-165: the weights are written to spatial_weights.json and returned.
KnnExport ==
    /\ knn.pc = "export"
    /\ knn' = [knn EXCEPT !.exported = knn.w, !.ret = knn.w, !.pc = "returned"]
    /\ UNCHANGED << sel, par, variant_run, fevd, gc, load, ecm_vars >>

KnnNext == KnnIterate \/ KnnLoopExit \/ KnnFallback \/ KnnExport

(***************************************************************************)
(* The Granger-causality step of run_ecm_analysis (lines 231-252) on its   *)
(* own: y and x are aligned and have passed the gate of line 163.          *)
(***************************************************************************)
\* x.columns (line 161: x = df[['conflict_intensity']])
XColumns == {"conflict_intensity"}

GcIdle == [pc |-> "idle", len_y |-> MIN_OBSERVATIONS, max_lag |-> 0,
           gc_results |-> EmptyDict, raised |-> {}, granger_causality |-> None]

\* Lines 231-232.
GcCeiling ==
    /\ gc.pc = "call"
    /\ gc' = [gc EXCEPT !.pc = "test", !.max_lag = GrangerMaxLag(gc.len_y),
                        !.gc_results = EmptyDict]
    /\ UNCHANGED << sel, par, variant_run, fevd, knn, load, ecm_vars >>

\* Lines 233-252: grangercausalitytests(..., maxlag=max_lag) returns one entry
\* per lag order 1..maxlag, or raises and the column gets {}.
GcTest ==
    /\ gc.pc = "test"
    /\ \E raising \in SUBSET XColumns :
         gc' = [gc EXCEPT
                  !.pc = "tested",
                  !.raised = raising,
                  !.gc_results =
                      [col \in XColumns |->
                          IF col \in raising THEN EmptyDict
                          ELSE [lag \in 1..gc.max_lag |-> "gc_metrics"]]]
    /\ UNCHANGED << sel, par, variant_run, fevd, knn, load, ecm_vars >>

\* Line 303: the mapping goes into the result record.
GcStore ==
    /\ gc.pc = "tested"
    /\ gc' = [gc EXCEPT !.pc = "stored", !.granger_causality = gc.gc_results]
    /\ UNCHANGED << sel, par, variant_run, fevd, knn, load, ecm_vars >>

GcNext == GcCeiling \/ GcTest \/ GcStore

(***************************************************************************)
(* The variance-decomposition step of run_ecm_analysis (lines 267-284) on  *)
(* its own.  Matrices are Neqs x Neqs over the integers, a matrix being    *)
(* the tuple of its rows; a share is kept as the pair of its numerator and *)
(* its denominator.                                                        *)
(***************************************************************************)
\* endog has the column y and the one column of x (lines 118-119).
Neqs == 2

Identity == << << 1, 0 >>, << 0, 1 >> >>

\* np.dot of two matrices
Dot(A, B) ==
    [i \in 1..Neqs |-> [j \in 1..Neqs |-> A[i][1] * B[1][j] + A[i][2] * B[2][j]]]

\* A.T
Transposed(A) == [i \in 1..Neqs |-> [j \in 1..Neqs |-> A[j][i]]]

Plus(A, B) == [i \in 1..Neqs |-> [j \in 1..Neqs |-> A[i][j] + B[i][j]]]

\* np.zeros((n, n))
Zeros == [i \in 1..Neqs |-> [j \in 1..Neqs |-> 0]]

\* np.diag(A)
Diag(A) == [i \in 1..Neqs |-> A[i][i]]

\* The loop of lines 277-278 for one i, with ma_rep[:, :, j] at position j + 1:
\* the sum over j = 0..i of MA_j . omega . MA_j^T.
AccumulatedVariance(ma_rep, omega, i) ==
    LET V[j \in 0..(i + 1)] ==
            IF j = 0 THEN Zeros
            ELSE Plus(V[j - 1],
                      Dot(Dot(ma_rep[j], omega), Transposed(ma_rep[j])))
    IN  V[i + 1]

\* Line 279: np.diag(variance) / np.sum(np.diag(variance))
FevdStepOf(variance) ==
    [k \in 1..Neqs |->
        [num |-> Diag(variance)[k],
         den |-> Diag(variance)[1] + Diag(variance)[2]]]

\* results.sigma_u: a covariance matrix, symmetric and positive definite.
SigmaUs ==
    {<< << a, b >>, << b, d >> >> :
        a \in 1..MaxCov, d \in 1..MaxCov, b \in 0..1} \
    {<< << 1, 1 >>, << 1, 1 >> >>}

\* results.ma_rep(maxn): the identity at step 0, then the responses.
Responses == {Identity, << << 1, 1 >>, << 0, 1 >> >>}
MaReps == {<< Identity >> \o tail : tail \in [1..MaxHorizon -> Responses]}

FevdIdle == [pc |-> "idle", has_fevd |-> FALSE, sigma_u |-> Identity,
             ma_rep |-> << Identity >>, omega |-> Zeros, i |-> 0,
             variances |-> << >>, fevd_data |-> << >>, record |-> None]

\* Lines 268-270: the fitted model has a fevd method.
FevdNative ==
    /\ fevd.pc = "call" /\ fevd.has_fevd
    /\ fevd' = [fevd EXCEPT !.pc = "computed", !.fevd_data = "decomp"]
    /\ UNCHANGED << sel, par, variant_run, gc, knn, load, ecm_vars >>

\* Lines 272-274.
FevdOmega ==
    /\ fevd.pc = "call" /\ ~fevd.has_fevd
    /\ fevd' = [fevd EXCEPT !.pc = "loop", !.i = 0, !.fevd_data = << >>,
                            !.omega = Dot(fevd.sigma_u, Transposed(fevd.sigma_u))]
    /\ UNCHANGED << sel, par, variant_run, gc, knn, load, ecm_vars >>

\* Lines 275-280: one horizon step; variances is history.
FevdStep ==
    /\ fevd.pc = "loop" /\ fevd.i < Len(fevd.ma_rep)
    /\ LET variance == AccumulatedVariance(fevd.ma_rep, fevd.omega, fevd.i)
       IN  fevd' = [fevd EXCEPT !.i = @ + 1,
                                !.variances = Append(@, variance),
                                !.fevd_data = Append(@, FevdStepOf(variance))]
    /\ UNCHANGED << sel, par, variant_run, gc, knn, load, ecm_vars >>

\* Line 275: the range is exhausted.
FevdLoopEnd ==
    /\ fevd.pc = "loop" /\ fevd.i = Len(fevd.ma_rep)
    /\ fevd' = [fevd EXCEPT !.pc = "computed"]
    /\ UNCHANGED << sel, par, variant_run, gc, knn, load, ecm_vars >>

\* Line 281.
FevdAppend ==
    /\ fevd.pc = "computed"
    /\ fevd' = [fevd EXCEPT
                  !.pc = "appended",
                  !.record = [forecast_error_variance_decomposition |->
                                  fevd.fevd_data]]
    /\ UNCHANGED << sel, par, variant_run, gc, knn, load, ecm_vars >>

\* Lines 282-284: fevd or ma_rep raised.
FevdRaises ==
    /\ fevd.pc = "call"
    /\ fevd' = [fevd EXCEPT
                  !.pc = "appended",
                  !.record = [forecast_error_variance_decomposition |-> None]]
    /\ UNCHANGED << sel, par, variant_run, gc, knn, load, ecm_vars >>

FevdNext ==
    FevdNative \/ FevdOmega \/ FevdStep \/ FevdLoopEnd \/ FevdAppend \/ FevdRaises

(***************************************************************************)
(* The variant 5_data_prepration_for_spatial_chart_new.py: its             *)
(* run_ecm_analysis, create_summary_report and save_results as main calls  *)
(* them (lines 613-632), on the results of the first loop.                 *)
(***************************************************************************)
\* What the first loop left for a unit, and what the library would do on it:
\* len(df), whether a stationarity result was stored, the cointegration
\* result (none, or its cointegrated flag), and whether VECM.fit and the
\* residual tests return or raise.
VariantUnits ==
    [rows : RowCounts, stationarity : BOOLEAN,
     cointegration : {"none", "not cointegrated", "cointegrated"},
     fit : {"returns", "raises"}, diagnostics : {"return", "raise"}]

\* Lines 200-210 of the variant: the three checks that end the iteration.
VariantGatePasses(d) ==
    /\ ~(d.rows < MIN_OBSERVATIONS)
    /\ d.stationarity
    /\ d.cointegration = "cointegrated"

\* Line 212: y.align(x, join='inner') is a tuple, and a tuple has no dropna.
AlignDropnaRaises == TRUE

\* Line 542: d.get('jarque_bera_pvalue', 0) > 0.05 raises on a None.
SummaryRaisesNew(diagnostics) ==
    \E i \in 1..Len(diagnostics) : IsNone(diagnostics[i].jarque_bera_pvalue)

\* Lines 540-567 of the variant.
create_summary_report_new(ecm_results, diagnostics, timestamp) ==
    [timestamp |-> timestamp,
     total_datasets |-> Len(ecm_results),
     successful_ecm_estimations |-> Len(ecm_results),
     diagnostics_passed |->
         Cardinality({i \in 1..Len(diagnostics) :
                        diagnostics[i].jarque_bera_pvalue > Alpha}),
     datasets |->
         [i \in 1..Min(Len(ecm_results), Len(diagnostics)) |->
             [commodity |-> ecm_results[i].commodity,
              regime |-> ecm_results[i].regime,
              optimal_lags |-> ecm_results[i].optimal_lags,
              granger_causality_tests |-> ecm_results[i].granger_causality,
              jarque_bera_pvalue |-> diagnostics[i].jarque_bera_pvalue]]]

RECURSIVE ConsolidateNew(_, _, _, _, _, _, _, _, _)
\* Lines 454-519 of the variant: the loop over ecm_results, from position i.
ConsolidateNew(ecm_results, i, consolidated, diagnostics, summaries, irfs, fevds, st, co) ==
    IF i > Len(ecm_results)
    THEN consolidated
    ELSE ConsolidateNew(ecm_results, i + 1,
             IF ecm_results[i].commodity = "" \/ ecm_results[i].regime = ""
             THEN consolidated
             ELSE Put(consolidated, ecm_results[i].commodity, ecm_results[i].regime,
                      EnsureRequired(
                          UnitRecordNew(ecm_results[i], diagnostics, summaries,
                                        irfs, fevds, st, co),
                          ecm_results[i].commodity, ecm_results[i].regime)),
             diagnostics, summaries, irfs, fevds, st, co)

VariantIdle == [pc |-> "idle", idx |-> 1, step |-> "gate", data |-> EmptyDict,
                all_results |-> << >>, all_diagnostics |-> << >>,
                logged |-> {}, summary_report |-> None, output |-> NotWritten]

\* Lines 197-210 of the variant.
VariantGate ==
    /\ variant_run.pc = "loop" /\ variant_run.step = "gate"
    /\ variant_run.idx <= Len(Panel)
    /\ variant_run' = IF VariantGatePasses(variant_run.data[Panel[variant_run.idx]])
                  THEN [variant_run EXCEPT !.step = "align"]
                  ELSE [variant_run EXCEPT !.idx = @ + 1]
    /\ UNCHANGED << sel, par, fevd, gc, knn, load, ecm_vars >>

\* Lines 211-212 and 409-410 of the variant: the exception of line 212 goes
\* to the except of the loop body, which logs it; the iteration is over.
VariantAlign ==
    /\ variant_run.pc = "loop" /\ variant_run.step = "align"
    /\ AlignDropnaRaises
    /\ variant_run' = [variant_run EXCEPT !.logged = @ \cup {Panel[variant_run.idx]},
                                  !.idx = @ + 1, !.step = "gate"]
    /\ UNCHANGED << sel, par, fevd, gc, knn, load, ecm_vars >>

\* Line 411 of the variant.
VariantLoopEnd ==
    /\ variant_run.pc = "loop" /\ variant_run.step = "gate"
    /\ variant_run.idx > Len(Panel)
    /\ variant_run' = [variant_run EXCEPT !.pc = "summary"]
    /\ UNCHANGED << sel, par, fevd, gc, knn, load, ecm_vars >>

\* Lines 620 and 535-570 of the variant: an exception is re-raised and ends
\* main in its except (line 635), before save_results.
VariantSummary ==
    /\ variant_run.pc = "summary"
    /\ variant_run' =
           IF SummaryRaisesNew(variant_run.all_diagnostics)
           THEN [variant_run EXCEPT !.pc = "done"]
           ELSE [variant_run EXCEPT
                   !.pc = "save",
                   !.summary_report =
                       create_summary_report_new(variant_run.all_results,
                                                 variant_run.all_diagnostics,
                                                 Clock[1])]
    /\ UNCHANGED << sel, par, fevd, gc, knn, load, ecm_vars >>

\* Lines 623-632 and 435-533 of the variant.
VariantSave ==
    /\ variant_run.pc = "save"
    /\ variant_run' = [variant_run EXCEPT
                     !.pc = "done",
                     !.output =
                         [written |-> TRUE,
                          consolidated |->
                              ConsolidateNew(variant_run.all_results, 1, EmptyDict,
                                             variant_run.all_diagnostics, << >>,
                                             << >>, << >>, EmptyDict, EmptyDict),
                          summary_report |-> variant_run.summary_report]]
    /\ UNCHANGED << sel, par, fevd, gc, knn, load, ecm_vars >>

VariantNext ==
    VariantGate \/ VariantAlign \/ VariantLoopEnd \/ VariantSummary \/ VariantSave

(***************************************************************************)
(* 4_Spatial_Analysis.py: main(), lines 285-322.  The tasks run in a pool  *)
(* of worker processes; the coordinator takes the futures as they          *)
(* complete and is the only one to touch the result list.                  *)
(***************************************************************************)
\* Lines 294-298: one task per (commodity, regime) pair, in this order.
SpatialPairs ==
    << <<"Salt", "North">>, <<"Salt", "South">>, <<"Salt", "Unified">>,
       <<"Wheat", "North">>, <<"Wheat", "South">> >>

args_list ==
    SubSeq(SpatialPairs, 1,
           IF MaxTasks < Len(SpatialPairs) THEN MaxTasks ELSE Len(SpatialPairs))

Tasks == 1..Len(args_list)

\* What a task's future carries once its worker is done: the results dict of
\* run_spatial_analysis (line 273), None (too few observations, line 217, or
\* an exception caught at lines 274-276), or an exception that reaches the
\* future (future.result() of line 309 raises).
TaskOutcomes == {"results", "None", "raises"}

\* Line 302.
max_workers_of(cpu_count) == IF cpu_count > 1 THEN cpu_count - 1 ELSE 1

ParIdle ==
    [pc |-> "idle", max_workers |-> 1, outcome |-> [t \in Tasks |-> "None"],
     future |-> [t \in Tasks |-> "none"], results |-> << >>,
     saved |-> [written |-> FALSE, records |-> << >>]]

Running == {t \in Tasks : par.future[t] = "running"}
Pending == {t \in Tasks : par.future[t] = "pending"}

\* Line 304: every task is submitted before the first future is awaited.
ParSubmit ==
    /\ par.pc = "submit"
    /\ par' = [par EXCEPT !.pc = "merge",
                          !.future = [t \in Tasks |-> "pending"]]
    /\ UNCHANGED << sel, variant_run, fevd, gc, knn, load, ecm_vars >>

\* A free worker of the pool takes the oldest task of the queue.
ParWorkerStart ==
    /\ par.pc = "merge"
    /\ Pending # {}
    /\ Cardinality(Running) < par.max_workers
    /\ LET t == CHOOSE p \in Pending : \A q \in Pending : p <= q
       IN  par' = [par EXCEPT !.future[t] = "running"]
    /\ UNCHANGED << sel, variant_run, fevd, gc, knn, load, ecm_vars >>

\* process_commodity_regime (lines 278-283) ends in its worker; the worker
\* hands its outcome to the future and writes nothing else.
ParWorkerFinish ==
    /\ par.pc = "merge"
    /\ \E t \in Running : par' = [par EXCEPT !.future[t] = "finished"]
    /\ UNCHANGED << sel, variant_run, fevd, gc, knn, load, ecm_vars >>

\* The merge without the test of line 310.
ParMerge_KeepsNone ==
    /\ par.pc = "merge"
    /\ \E t \in Tasks :
         /\ par.future[t] = "finished"
         /\ par' = [par EXCEPT
                      !.future[t] = "consumed",
                      !.results =
                          IF par.outcome[t] # "raises"
                          THEN Append(par.results,
                                      [commodity |-> args_list[t][1],
                                       regime |-> args_list[t][2]])
                          ELSE par.results]
    /\ UNCHANGED << sel, variant_run, fevd, gc, knn, load, ecm_vars >>

\* Lines 305-313: one turn of the loop over as_completed, in the coordinator.
ParMerge ==
    /\ par.pc = "merge"
    /\ \E t \in Tasks :
         /\ par.future[t] = "finished"
         /\ par' = [par EXCEPT
                      !.future[t] = "consumed",
                      !.results =
                          IF par.outcome[t] = "results"
                          THEN Append(par.results,
                                      [commodity |-> args_list[t][1],
                                       regime |-> args_list[t][2]])
                          ELSE par.results]
    /\ UNCHANGED << sel, variant_run, fevd, gc, knn, load, ecm_vars >>

\* Lines 316-322: as_completed is exhausted, the list is written; a failure
\* of the write is logged and leaves no list.
ParSave ==
    /\ par.pc = "merge"
    /\ \A t \in Tasks : par.future[t] = "consumed"
    /\ \E written \in BOOLEAN :
         par' = [par EXCEPT !.pc = "done",
                            !.saved = [written |-> written,
                                       records |-> IF written THEN par.results
                                                   ELSE << >>]]
    /\ UNCHANGED << sel, variant_run, fevd, gc, knn, load, ecm_vars >>

ParNext == ParSubmit \/ ParWorkerStart \/ ParWorkerFinish \/ ParMerge \/ ParSave

(***************************************************************************)
(* One unit run twice, from line 436 on, with different selections of the  *)
(* stationarity classifier.  engle_granger and VECM are functions of what  *)
(* they are given: called again with the same arguments they behave the    *)
(* same, called with other arguments they may not.                         *)
(***************************************************************************)
\* reset_index(drop=True) of the rows with the given labels, in label order.
ResetIndex(series, labels) ==
    [k \in 1..Cardinality(labels) |->
        series[CHOOSE i \in labels : Cardinality({j \in labels : j < i}) = k - 1]]

\* What engle_granger would get if the selected series were the ones tested.
EngleGrangerArgs_Selected(price_series, conflict_series, st) ==
    [price |-> st.usdprice.series, conflict |-> st.conflict_intensity.series]

\* Lines 95-103: the two columns of combined_df; the stationarity results
\* are read for the two labels only (lines 100-101).
EngleGrangerArgs(price_series, conflict_series, st) ==
    [price |-> ResetIndex(price_series,
                          CombinedIndex(price_series, conflict_series)),
     conflict |-> ResetIndex(conflict_series,
                             CombinedIndex(price_series, conflict_series))]

\* Lines 161-162 and 168: y and x as estimate_ecm gets them.
EstimateEcmArgs(df) ==
    LET kept == {i \in 1..Rows(df) :
                   ~IsNull(df.usdprice[i]) /\ ~IsNull(df.conflict_intensity[i])}
    IN  [y |-> ResetIndex(df.usdprice, kept),
         x |-> ResetIndex(df.conflict_intensity, kept)]

\* The names run_stationarity_tests can return for a series (line 91).
Selectable(series) ==
    {Transformations(series)[k].name : k \in 1..Len(Transformations(series))}

\* The entry of stationarity_results for a selection (lines 432-435).
StationarityEntry(df, price_name, conflict_name) ==
    [usdprice |->
        [transformation |-> price_name,
         series |-> SeriesOf(Transformations(df.usdprice), price_name)],
     conflict_intensity |->
        [transformation |-> conflict_name,
         series |-> SeriesOf(Transformations(df.conflict_intensity),
                             conflict_name)]]

\* The frames that get to line 436: enough rows, both series classified.
ClassifiedFrames ==
    {df \in GroupFrames : /\ ~TooFewRows(df)
                          /\ ~HasNullOrInf(df.usdprice)
                          /\ ~HasNullOrInf(df.conflict_intensity)}

SelIdle ==
    [pc |-> "idle", run |-> 1, df |-> None, st |-> << None, None >>,
     eg_args |-> << None, None >>, eg_out |-> << None, None >>,
     cointegration_result |-> << None, None >>,
     ecm_args |-> << None, None >>, fit_out |-> << None, None >>]

\* Lines 436-441 and 93-114 of the run in progress.
SelCointegration ==
    /\ sel.pc = "cointegration"
    /\ LET r == sel.run
           args == EngleGrangerArgs(sel.df.usdprice, sel.df.conflict_intensity,
                                    sel.st[r])
       IN  \E eg \in EGOutcomes :
             /\ (r = 2 /\ args = sel.eg_args[1]) => eg = sel.eg_out[1]
             /\ LET result == run_cointegration_tests(sel.df.usdprice,
                                                      sel.df.conflict_intensity,
                                                      sel.st[r], eg)
                IN  sel' = [sel EXCEPT
                              !.pc = IF IsNone(result) THEN "next" ELSE "ecm",
                              !.eg_args[r] = args,
                              !.eg_out[r] = eg,
                              !.cointegration_result[r] = result]
    /\ UNCHANGED << par, variant_run, fevd, gc, knn, load, ecm_vars >>

\* Lines 156-171 of the run in progress: the gates, then estimate_ecm.
SelEcm ==
    /\ sel.pc = "ecm"
    /\ LET r == sel.run
           args == EstimateEcmArgs(sel.df)
       IN  IF \/ ~sel.cointegration_result[r].engle_granger.cointegrated
              \/ AlignedLen(sel.df) < MIN_OBSERVATIONS
           THEN sel' = [sel EXCEPT !.pc = "next"]
           ELSE \E o \in FitOutcomes :
                  /\ (r = 2 /\ args = sel.ecm_args[1]) => o = sel.fit_out[1]
                  /\ sel' = [sel EXCEPT !.pc = "next",
                                        !.ecm_args[r] = args,
                                        !.fit_out[r] = o]
    /\ UNCHANGED << par, variant_run, fevd, gc, knn, load, ecm_vars >>

\* The first run is over and the second starts, or both are over.
SelNextRun ==
    /\ sel.pc = "next"
    /\ sel' = IF sel.run = 1
              THEN [sel EXCEPT !.run = 2, !.pc = "cointegration"]
              ELSE [sel EXCEPT !.pc = "done"]
    /\ UNCHANGED << par, variant_run, fevd, gc, knn, load, ecm_vars >>

SelNext == SelCointegration \/ SelEcm \/ SelNextRun

(***************************************************************************)
(* The specifications.                                                     *)
(***************************************************************************)
PipeInit ==
    /\ pc = "load" /\ step = "gate" /\ idx = 1
    /\ input_file \in InputFiles
    /\ data \in [PanelSet -> GroupFrames]
    /\ stationarity_results = EmptyDict
    /\ cointegration_results = EmptyDict
    /\ all_results = << >> /\ all_diagnostics = << >> /\ all_summaries = << >>
    /\ all_irfs = << >> /\ all_fevds = << >>
    /\ cur = CurIdle
    /\ summary_report = EmptyDict
    /\ output = NotWritten
    /\ rerun = NoRerun
    /\ calls = NoCalls
    /\ failed = NoFailures

PipeIdle ==
    /\ pc = "idle" /\ step = "gate" /\ idx = 1
    /\ input_file = CompleteFile
    /\ data = EmptyDict
    /\ stationarity_results = EmptyDict
    /\ cointegration_results = EmptyDict
    /\ all_results = << >> /\ all_diagnostics = << >> /\ all_summaries = << >>
    /\ all_irfs = << >> /\ all_fevds = << >>
    /\ cur = CurIdle
    /\ summary_report = EmptyDict
    /\ output = NotWritten
    /\ rerun = NoRerun
    /\ calls = NoCalls
    /\ failed = NoFailures

\* Every part that runs on its own is idle, but the one named.
RestIdle(running) ==
    /\ IF running = "load" THEN TRUE ELSE load = LoadIdle
    /\ IF running = "knn" THEN TRUE ELSE knn = KnnIdle
    /\ IF running = "gc" THEN TRUE ELSE gc = GcIdle
    /\ IF running = "fevd" THEN TRUE ELSE fevd = FevdIdle
    /\ IF running = "variant_run" THEN TRUE ELSE variant_run = VariantIdle
    /\ IF running = "par" THEN TRUE ELSE par = ParIdle
    /\ IF running = "sel" THEN TRUE ELSE sel = SelIdle

\* The pipeline: main() of 2_ECM_Analysis.py on a panel of the bounded inputs.
Init ==
    /\ PipeInit /\ stat = StatIdle /\ coint = CointIdle /\ est = EstIdle
    /\ RestIdle("")

Next ==
    \/ Load \/ MainGate \/ MainStationarity \/ MainCointegration \/ MainLoopEnd
    \/ EcmGate \/ EcmEstimate \/ EcmPostFit \/ EcmDiagnostics \/ EcmGranger
    \/ EcmIrf \/ EcmFevd \/ EcmAppend \/ EcmLoopEnd
    \/ Summary \/ Save

Spec == Init /\ [][Next]_vars

\* The classifier alone: run_stationarity_tests on one series.
StatInit ==
    /\ PipeIdle
    /\ coint = CointIdle
    /\ est = EstIdle
    /\ \E s \in SeriesInputs : stat = [StatIdle EXCEPT !.pc = "call", !.series = s]
    /\ RestIdle("")

SpecStat == StatInit /\ [][StatNext]_vars

\* The cointegration test alone: run_cointegration_tests on two series.
CointInit ==
    /\ PipeIdle
    /\ stat = StatIdle
    /\ est = EstIdle
    /\ \E p \in IndexedSeries, c \in IndexedSeries, t \in {"original", "diff"} :
          coint = [CointIdle EXCEPT !.pc = "call", !.price_series = p,
                                    !.conflict_series = c,
                                    !.st = StationarityOf(t)]
    /\ RestIdle("")

SpecCoint == CointInit /\ [][CointNext]_vars

\* The estimation alone: estimate_ecm with each configured ecm_lags >= 1.
EstInit ==
    /\ PipeIdle
    /\ stat = StatIdle
    /\ coint = CointIdle
    /\ \E l \in 1..MaxEcmLags : est = [EstIdle EXCEPT !.pc = "call", !.ecm_lags = l]
    /\ RestIdle("")

SpecEst == EstInit /\ [][EstNext]_vars

\* Every part of the ECM pipeline is idle.
EcmIdle == PipeIdle /\ stat = StatIdle /\ coint = CointIdle /\ est = EstIdle

\* load_data alone, on each file of the bounded inputs.
LoadInit ==
    /\ EcmIdle
    /\ RestIdle("load")
    /\ \E raw \in RawTables : load = [LoadIdle EXCEPT !.pc = "read", !.raw = raw]

SpecLoad == LoadInit /\ [][LoadNext]_vars

\* export_spatial_weights alone: line 122, with every initial_k and max_k, a
\* region set connected from some k on or not within the bound, and a
\* connectivity check that works or raises.
KnnInit ==
    /\ EcmIdle
    /\ RestIdle("knn")
    /\ \E initial_k \in 1..MaxK, max_k \in 1..MaxK,
          first_connected \in 1..(MaxK + 1), check_raises \in BOOLEAN :
          knn = [KnnIdle EXCEPT !.pc = "loop", !.initial_k = initial_k,
                                !.max_k = max_k, !.k = initial_k,
                                !.first_connected = first_connected,
                                !.check_raises = check_raises]

SpecKnn == KnnInit /\ [][KnnNext]_vars

\* The Granger-causality step alone, for each length that passes line 163.
GcInit ==
    /\ EcmIdle
    /\ RestIdle("gc")
    /\ \E n \in MIN_OBSERVATIONS..MaxAlignedLen :
          gc = [GcIdle EXCEPT !.pc = "call", !.len_y = n]

SpecGc == GcInit /\ [][GcNext]_vars

\* The variance decomposition alone, on each fitted model of the bounded inputs.
FevdInit ==
    /\ EcmIdle
    /\ RestIdle("fevd")
    /\ \E has_fevd \in BOOLEAN, sigma_u \in SigmaUs, ma_rep \in MaReps :
          fevd = [FevdIdle EXCEPT !.pc = "call", !.has_fevd = has_fevd,
                                  !.sigma_u = sigma_u, !.ma_rep = ma_rep]

SpecFevd == FevdInit /\ [][FevdNext]_vars

\* The variant from line 613 on, for each outcome of its first loop.
VariantInit ==
    /\ EcmIdle
    /\ RestIdle("variant_run")
    /\ \E d \in [PanelSet -> VariantUnits] :
          variant_run = [VariantIdle EXCEPT !.pc = "loop", !.data = d]

SpecVariant == VariantInit /\ [][VariantNext]_vars

\* main() of 4_Spatial_Analysis.py from line 300 on, for each outcome of each
\* task and each size of the pool.
ParInit ==
    /\ EcmIdle
    /\ RestIdle("par")
    /\ \E cpu_count \in 1..MaxCpus, o \in [Tasks -> TaskOutcomes] :
          par = [ParIdle EXCEPT !.pc = "submit",
                                !.max_workers = max_workers_of(cpu_count),
                                !.outcome = o]

SpecPar == ParInit /\ [][ParNext]_vars

\* Two runs on one frame, each with a selection the classifier can make.
SelInit ==
    /\ EcmIdle
    /\ RestIdle("sel")
    /\ \E df \in ClassifiedFrames :
         \E p1 \in Selectable(df.usdprice), p2 \in Selectable(df.usdprice),
            c1 \in Selectable(df.conflict_intensity),
            c2 \in Selectable(df.conflict_intensity) :
              sel = [SelIdle EXCEPT
                       !.pc = "cointegration", !.df = df,
                       !.st = << StationarityEntry(df, p1, c1),
                                 StationarityEntry(df, p2, c2) >>]

SpecSel == SelInit /\ [][SelNext]_vars

(***************************************************************************)
(* Vocabulary of the properties.                                           *)
(***************************************************************************)
UnitsOf(records) ==
    {<< records[i].commodity, records[i].regime >> : i \in 1..Len(records)}

\* The unit has a record in the consolidated document.
InOutput(u) ==
    /\ u[1] \in DOMAIN output.consolidated
    /\ u[2] \in DOMAIN output.consolidated[u[1]]

PosOf(u) == CHOOSE k \in 1..Len(Panel) : Panel[k] = u

\* main() ran to its last line: the input was loaded and the run is over.
Finished == pc = "done" /\ file_ok

\* The first loop of main() is past the unit.
FirstLoopPast(u) ==
    \/ pc \in {"pass2", "summary", "save"}
    \/ Finished
    \/ pc = "pass1" /\ idx > PosOf(u)

\* The second loop (run_ecm_analysis) is past the unit.
SecondLoopPast(u) ==
    \/ pc \in {"summary", "save"}
    \/ Finished
    \/ pc = "pass2" /\ idx > PosOf(u)

Cointegrated(u) ==
    /\ Key(u) \in DOMAIN cointegration_results
    /\ cointegration_results[Key(u)].engle_granger.cointegrated

ContainsNaNOrInf(series) ==
    \E i \in 1..Len(series) : series[i].t \in {"nan", "inf"}

BadData(u) ==
    \/ ContainsNaNOrInf(data[u].usdprice)
    \/ ContainsNaNOrInf(data[u].conflict_intensity)

RequiredFields == {"ecm_results", "diagnostics", "summaries", "irfs", "fevds",
                   "stationarity_results", "cointegration_results"}

(***************************************************************************)
(* C1.  estimate_ecm is attempted for a unit only if the unit has a stored *)
(* cointegration result whose engle_granger.cointegrated flag is true; a   *)
(* unit whose flag is false, or that has no cointegration result, gets no  *)
(* ECM fit and no result, diagnostics, IRF or FEVD record.                 *)
(***************************************************************************)
C1_CointegrationGate ==
    \A u \in PanelSet :
        /\ calls["estimate_ecm"][u] > 0 => Cointegrated(u)
        /\ ~Cointegrated(u) =>
              /\ calls["estimate_ecm"][u] = 0
              /\ u \notin UnitsOf(all_results) \cup UnitsOf(all_diagnostics)
                          \cup UnitsOf(all_irfs) \cup UnitsOf(all_fevds)

\* A finished run in which one unit was tested and found not cointegrated,
\* and was passed over, while another unit was estimated.
C1_Witness ==
    /\ Finished
    /\ \E u, v \in PanelSet :
          /\ Key(u) \in DOMAIN cointegration_results
          /\ ~cointegration_results[Key(u)].engle_granger.cointegrated
          /\ calls["estimate_ecm"][u] = 0
          /\ calls["estimate_ecm"][v] = 1

(***************************************************************************)
(* C2.  Whatever units are rejected for their data, have too few rows,     *)
(* fail in estimation or fail in the diagnostics, main() is never stuck    *)
(* before its end and, unless load_data failed, ends with save_results     *)
(* having written the consolidated document, which holds every unit whose  *)
(* ECM analysis went through (fit and diagnostics).                        *)
(***************************************************************************)
C2_BatchCompletes ==
    /\ pc # "done" => ENABLED Next
    /\ Finished =>
          /\ output.written
          /\ \A u \in UnitsOf(all_diagnostics) :
                /\ InOutput(u)
                /\ output.consolidated[u[1]][u[2]].ecm_results.commodity = u[1]
                /\ output.consolidated[u[1]][u[2]].ecm_results.regime = u[2]

\* A finished run where the estimation of one unit was attempted and failed,
\* and another unit is in the written document.
C2_Witness ==
    /\ Finished /\ output.written
    /\ \E u, v \in PanelSet :
          /\ calls["estimate_ecm"][u] = 1
          /\ u \notin UnitsOf(all_results)
          /\ InOutput(v)

(***************************************************************************)
(* C3.  Every record save_results writes has all of ecm_results,           *)
(* diagnostics, summaries, irfs, fevds, stationarity_results and           *)
(* cointegration_results; where a sub-analysis has nothing for the unit    *)
(* the field is present with an empty default.  Holds for save_results of  *)
(* 2_ECM_Analysis.py and of the variant.                                   *)
(***************************************************************************)
C3_RequiredFields ==
    /\ \A c \in DOMAIN output.consolidated :
          \A r \in DOMAIN output.consolidated[c] :
              RequiredFields \subseteq DOMAIN output.consolidated[c][r]
    /\ \A i \in 1..Len(all_results) :
          LET full == UnitRecord(all_results[i], all_diagnostics, all_summaries,
                                 all_irfs, all_fevds, stationarity_results,
                                 cointegration_results)
              bare == UnitRecord(all_results[i], << >>, << >>, << >>, << >>,
                                 EmptyDict, EmptyDict)
              variant == EnsureRequired(
                             UnitRecordNew(all_results[i], << >>, << >>, << >>,
                                           << >>, EmptyDict, EmptyDict),
                             all_results[i].commodity, all_results[i].regime)
          IN  /\ RequiredFields \subseteq DOMAIN full
              /\ RequiredFields \subseteq DOMAIN bare
              /\ \A f \in RequiredFields \ {"ecm_results"} : DOMAIN bare[f] = {}
              /\ RequiredFields \subseteq DOMAIN variant

\* The document was written and holds a record.
C3_Witness ==
    /\ output.written
    /\ DOMAIN output.consolidated # {}

(***************************************************************************)
(* C4 as claimed.  After a run, every unit of the panel with at least      *)
(* MIN_OBSERVATIONS rows has a record with all required keys in the        *)
(* consolidated document, also when an upstream component failed for it.   *)
(***************************************************************************)
C4_EveryUnitRecorded ==
    Finished =>
        \A u \in PanelSet :
            Rows(data[u]) >= MIN_OBSERVATIONS =>
                /\ InOutput(u)
                /\ RequiredFields \subseteq DOMAIN output.consolidated[u[1]][u[2]]

(***************************************************************************)
(* C4 as amended.  After a run, the consolidated document holds a record,  *)
(* with all required keys, for exactly the units whose stationarity        *)
(* classification, cointegration test (with a positive result), ECM fit    *)
(* and residual diagnostics all went through; a unit with at least         *)
(* MIN_OBSERVATIONS rows for which one of these failed has no record.      *)
(***************************************************************************)
C4_SucceededUnitsRecorded ==
    Finished =>
        \A u \in PanelSet :
            /\ InOutput(u) <=> u \in UnitsOf(all_diagnostics)
            /\ InOutput(u) =>
                  /\ RequiredFields \subseteq DOMAIN output.consolidated[u[1]][u[2]]
                  /\ Rows(data[u]) >= MIN_OBSERVATIONS
                  /\ Key(u) \in DOMAIN stationarity_results
                  /\ Cointegrated(u)
                  /\ calls["estimate_ecm"][u] = 1
                  /\ calls["diagnostics"][u] = 1

\* A finished run with one unit recorded and another unit, with enough rows
\* and a failed diagnostics step, left out.
C4_Witness ==
    /\ Finished
    /\ \E u, v \in PanelSet :
          /\ InOutput(u)
          /\ Rows(data[v]) >= MIN_OBSERVATIONS
          /\ calls["diagnostics"][v] = 1
          /\ ~InOutput(v)

(***************************************************************************)
(* C5.  A unit with MIN_OBSERVATIONS - 1 rows is skipped by both loops: no *)
(* stationarity test, no cointegration test, no ECM, and it is absent from *)
(* every result and from the output.  A unit with exactly MIN_OBSERVATIONS *)
(* rows is attempted: run_stationarity_tests is called on both its series. *)
(***************************************************************************)
C5_MinObservationsBoundary ==
    \A u \in PanelSet :
        /\ Rows(data[u]) = MIN_OBSERVATIONS - 1 =>
              /\ \A r \in Routines : calls[r][u] = 0
              /\ Key(u) \notin DOMAIN stationarity_results
              /\ Key(u) \notin DOMAIN cointegration_results
              /\ u \notin UnitsOf(all_results) \cup UnitsOf(all_diagnostics)
                          \cup UnitsOf(all_summaries) \cup UnitsOf(all_irfs)
                          \cup UnitsOf(all_fevds)
              /\ ~InOutput(u)
        /\ Rows(data[u]) = MIN_OBSERVATIONS /\ FirstLoopPast(u) =>
              calls["run_stationarity_tests"][u] = 2

\* A finished run over a panel with a unit of MIN_OBSERVATIONS - 1 rows and
\* a unit of MIN_OBSERVATIONS rows whose series were tested.
C5_Witness ==
    /\ Finished
    /\ \E u, v \in PanelSet :
          /\ Rows(data[u]) = MIN_OBSERVATIONS - 1
          /\ Rows(data[v]) = MIN_OBSERVATIONS
          /\ calls["tests_usdprice"][v] > 0

(***************************************************************************)
(* C9.  On a series with a NaN or an infinite value run_stationarity_tests *)
(* starts no test (and returns None); main then stores no stationarity     *)
(* result for the unit, runs no cointegration test on it, no ECM is        *)
(* attempted for it, and the other units are still processed.              *)
(***************************************************************************)
C9_BadDataRejected ==
    \A u \in PanelSet :
        /\ ContainsNaNOrInf(data[u].usdprice) => calls["tests_usdprice"][u] = 0
        /\ ContainsNaNOrInf(data[u].conflict_intensity) =>
              calls["tests_conflict_intensity"][u] = 0
        /\ BadData(u) =>
              /\ Key(u) \notin DOMAIN stationarity_results
              /\ Key(u) \notin DOMAIN cointegration_results
              /\ calls["engle_granger"][u] = 0
              /\ calls["estimate_ecm"][u] = 0
              /\ ~InOutput(u)
        /\ ~BadData(u) /\ Rows(data[u]) >= MIN_OBSERVATIONS /\ FirstLoopPast(u) =>
              /\ Key(u) \in DOMAIN stationarity_results
              /\ calls["engle_granger"][u] = 1

\* A finished run where a unit with enough rows was rejected for an infinite
\* value and the unit after it was classified and tested for cointegration.
C9_Witness ==
    /\ Finished
    /\ \E u, v \in PanelSet :
          /\ PosOf(u) < PosOf(v)
          /\ Rows(data[u]) >= MIN_OBSERVATIONS
          /\ ContainsNaNOrInf(data[u].conflict_intensity)
          /\ calls["run_stationarity_tests"][u] = 2
          /\ Key(v) \in DOMAIN stationarity_results
          /\ calls["engle_granger"][v] = 1

(***************************************************************************)
(* Vocabulary of the properties of the classifier.                         *)
(***************************************************************************)
CandidateOrder == << "original", "diff", "log", "log_diff" >>

Returned == stat.pc = "ret" /\ ~IsNone(stat.ret)

NamesOf(transformations) ==
    {transformations[k].name : k \in 1..Len(transformations)}

Started == {stat.acc.evaluated[k] : k \in 1..Len(stat.acc.evaluated)}

\* An entry of the per-candidate results with ADF p < 0.05 and KPSS p > 0.05.
Qualifies(entry) == entry.ADF.p_value < Alpha /\ entry.KPSS.p_value > Alpha

\* The positions in the evaluation history of the candidates that qualified.
Qualifying ==
    {k \in 1..Len(stat.acc.evaluated) :
        /\ stat.acc.evaluated[k] \in DOMAIN stat.acc.results
        /\ Qualifies(stat.acc.results[stat.acc.evaluated[k]])}

(***************************************************************************)
(* C6.  The candidates are evaluated in the order original, diff, log,     *)
(* log_diff; the first one with ADF p < 0.05 and KPSS p > 0.05 is selected *)
(* and nothing after it is evaluated or gets an entry; when none qualifies *)
(* after the whole list, 'original' is selected.                           *)
(***************************************************************************)
C6_FirstQualifyingSelected ==
    /\ \A k \in 1..Len(stat.acc.evaluated) :
          /\ stat.acc.evaluated[k] = CandidateOrder[k]
          /\ k \in Qualifying => k = Len(stat.acc.evaluated)
    /\ DOMAIN stat.acc.results \subseteq Started
    /\ Returned =>
          /\ stat.ret.results = stat.acc.results
          /\ IF Qualifying # {}
             THEN stat.ret.transformation
                      = stat.acc.evaluated[Len(stat.acc.evaluated)]
             ELSE /\ stat.ret.transformation = "original"
                  /\ Len(stat.acc.evaluated) = Len(stat.transformations)

\* diff was selected on a series that also had log and log_diff, and neither
\* of the two was evaluated.
C6_Witness ==
    /\ Returned
    /\ stat.ret.transformation = "diff"
    /\ Len(stat.transformations) = 4
    /\ stat.acc.evaluated = << "original", "diff" >>

(***************************************************************************)
(* C7 as claimed.  On a series without NaN/Inf the call terminates and     *)
(* returns one selected transformation, which has an entry in the returned *)
(* per-candidate results.                                                  *)
(***************************************************************************)
C7_SelectedHasEntry ==
    /\ stat.pc \in {"call", "loop"} => ENABLED StatNext
    /\ stat.pc = "ret" /\ ~ContainsNaNOrInf(stat.series) =>
          /\ ~IsNone(stat.ret)
          /\ stat.ret.transformation \in DOMAIN stat.ret.results

(***************************************************************************)
(* C7 as amended.  On a series without NaN/Inf the call terminates (the    *)
(* loop makes at most one iteration per candidate) and returns one         *)
(* selected transformation, which is one of the candidates the tests were  *)
(* started on; it has an entry in the returned results unless it is        *)
(* 'original' selected by default after the tests on 'original' raised.    *)
(***************************************************************************)
C7_SelectedWasEvaluated ==
    /\ stat.pc \in {"call", "loop"} => ENABLED StatNext
    /\ stat.pc = "loop" => stat.i = Len(stat.acc.evaluated) + 1
    /\ Len(stat.acc.evaluated) <= Len(stat.transformations)
    /\ stat.pc = "ret" /\ ~ContainsNaNOrInf(stat.series) =>
          /\ ~IsNone(stat.ret)
          /\ stat.ret.transformation \in NamesOf(stat.transformations)
          /\ stat.ret.transformation \in Started
          /\ \/ stat.ret.transformation \in DOMAIN stat.ret.results
             \/ /\ stat.ret.transformation = "original"
                /\ "original" \in stat.acc.raised
                /\ Qualifying = {}

\* The tests raised on 'original', nothing else qualified, and 'original' was
\* returned without an entry.
C7_Witness ==
    /\ Returned
    /\ stat.ret.transformation = "original"
    /\ "original" \in stat.acc.raised
    /\ "original" \notin DOMAIN stat.ret.results
    /\ "diff" \in DOMAIN stat.ret.results

(***************************************************************************)
(* C8.  When adfuller or kpss raises on a candidate, the candidate gets no *)
(* entry and is not selected as stationary, the loop goes on with the      *)
(* candidates after it in order (until one of them qualifies or the list   *)
(* is exhausted), and the call returns a classification.                   *)
(***************************************************************************)
C8_RaiseSkipsCandidate ==
    /\ \A c \in stat.acc.raised :
          /\ c \notin DOMAIN stat.acc.results
          /\ stat.acc.selected # c
    /\ \A k \in 1..Len(stat.acc.evaluated) :
          stat.acc.evaluated[k] = stat.transformations[k].name
    /\ stat.pc = "loop" /\ stat.acc.stopped => Qualifying # {}
    /\ stat.pc = "ret" /\ stat.acc.raised # {} =>
          /\ ~IsNone(stat.ret)
          /\ stat.ret.transformation \in NamesOf(stat.transformations)
          /\ \/ Len(stat.acc.evaluated) = Len(stat.transformations)
             \/ Len(stat.acc.evaluated) \in Qualifying

\* The tests raised on 'original' and on 'log'; all four candidates were
\* evaluated and a classification was returned.
C8_Witness ==
    /\ Returned
    /\ stat.acc.raised = {"original", "log"}
    /\ stat.acc.evaluated = CandidateOrder
    /\ stat.ret.transformation = "log_diff"

(***************************************************************************)
(* C10.  On a series with a value <= 0, log and log_diff are never         *)
(* attempted: they are no candidates, no test is started or raises on      *)
(* them, and the results have no entry for them.  log and log_diff are     *)
(* candidates only when every value is strictly positive.                  *)
(***************************************************************************)
C10_LogOnlyWhenPositive ==
    LET logs == {"log", "log_diff"}
        nonpositive == \E i \in 1..Len(stat.series) :
                           stat.series[i].t = "num" /\ stat.series[i].v <= 0
        positive == \A i \in 1..Len(stat.series) :
                        stat.series[i].t = "num" /\ stat.series[i].v > 0
    IN  /\ nonpositive =>
              /\ logs \cap NamesOf(stat.transformations) = {}
              /\ logs \cap Started = {}
              /\ logs \cap stat.acc.raised = {}
              /\ logs \cap DOMAIN stat.acc.results = {}
              /\ Returned => logs \cap DOMAIN stat.ret.results = {}
        /\ logs \cap NamesOf(stat.transformations) # {} => positive
        /\ stat.pc \in {"loop", "ret"} /\ positive =>
              logs \subseteq NamesOf(stat.transformations)

\* A series with a zero and otherwise positive values was classified over
\* exactly original and diff.
C10_Witness ==
    /\ Returned
    /\ \E i \in 1..Len(stat.series) : stat.series[i] = Num(0)
    /\ \A i \in 1..Len(stat.series) : stat.series[i].v >= 0
    /\ stat.acc.evaluated = << "original", "diff" >>

(***************************************************************************)
(* C11.  With fewer than 2 rows after alignment (the index labels the two  *)
(* series share) run_cointegration_tests returns None without calling      *)
(* engle_granger, and the caller stores no cointegration result for the    *)
(* unit; with 2 or more aligned rows engle_granger is called once.         *)
(***************************************************************************)
C11_TwoAlignedObservations ==
    LET aligned == {i \in 1..MaxIndex : i \in DOMAIN coint.price_series
                                        /\ i \in DOMAIN coint.conflict_series}
    IN  coint.pc \in {"store", "stored"} =>
           /\ Cardinality(aligned) < 2 =>
                  /\ IsNone(coint.ret)
                  /\ coint.eg_calls = 0
                  /\ coint.pc = "stored" =>
                         Key(CointUnit) \notin DOMAIN cointegration_results
           /\ Cardinality(aligned) >= 2 => coint.eg_calls = 1
           /\ ~IsNone(coint.ret) /\ coint.pc = "stored" =>
                  cointegration_results[Key(CointUnit)] = coint.ret

\* Two series of two rows each that share exactly one index label: the call
\* returned None and nothing was stored.
C11_Witness ==
    /\ coint.pc = "stored"
    /\ Cardinality(DOMAIN coint.price_series) = 2
    /\ Cardinality(DOMAIN coint.conflict_series) = 2
    /\ Cardinality(DOMAIN coint.price_series \cap DOMAIN coint.conflict_series) = 1
    /\ IsNone(coint.ret)
    /\ cointegration_results = EmptyDict

(***************************************************************************)
(* C12.  Whatever order lag selection reports as lag_order.aic (None       *)
(* included) and whatever ecm_lags >= 1 is configured, the VECM is fitted  *)
(* with a k_ar_diff in 1..ecm_lags (the reported order itself when that    *)
(* lies in the range), the result record reports this k_ar_diff as         *)
(* optimal_lags, and the cointegration rank is 1.                          *)
(***************************************************************************)
C12_LagClamp ==
    /\ est.pc \in {"fitted", "reported"} =>
          /\ est.k_ar_diff \in 1..est.ecm_lags
          /\ est.coint_rank = 1
          /\ ~est.lag_order.aic_is_none /\ est.lag_order.aic \in 1..est.ecm_lags =>
                 est.k_ar_diff = est.lag_order.aic
    /\ est.pc = "reported" =>
          /\ est.result.optimal_lags = est.k_ar_diff
          /\ est.result.optimal_lags \in 1..est.ecm_lags
          /\ est.result.regression.k_ar_diff = est.k_ar_diff
          /\ est.result.regression.coint_rank = 1

\* Lag selection reported order 0 under ecm_lags = 2: the model was fitted
\* and reported with one lag.
C12_Witness ==
    /\ est.pc = "reported"
    /\ est.ecm_lags = 2
    /\ ~est.lag_order.aic_is_none /\ est.lag_order.aic = 0
    /\ est.result.optimal_lags = 1

(***************************************************************************)
(* Vocabulary of the properties of the second loop.                        *)
(***************************************************************************)
EstimationRoutines == {"select_order", "VECM.fit"}

\* The unit passes every check that precedes the call of estimate_ecm.
Eligible(u) ==
    /\ Rows(data[u]) >= MIN_OBSERVATIONS
    /\ Key(u) \in DOMAIN stationarity_results
    /\ Cointegrated(u)
    /\ AlignedLen(data[u]) >= MIN_OBSERVATIONS

\* The unit has a record in one of the five lists of run_ecm_analysis.
InSomeList(u) ==
    u \in UnitsOf(all_results) \cup UnitsOf(all_diagnostics)
          \cup UnitsOf(all_summaries) \cup UnitsOf(all_irfs)
          \cup UnitsOf(all_fevds)

(***************************************************************************)
(* C13.  When select_order or VECM.fit raises for a unit, the unit is      *)
(* skipped: it gets no result, diagnostics, summary, IRF or FEVD record    *)
(* and no record in the output, its estimation is not tried again, the     *)
(* run does not end there, and every later unit that passes the gates of   *)
(* the loop still has its estimation attempted.                            *)
(***************************************************************************)
C13_EstimationFailureSkipsUnit ==
    \A u \in PanelSet :
        failed[u] \cap EstimationRoutines # {} =>
            /\ ~InSomeList(u)
            /\ ~InOutput(u)
            /\ calls["estimate_ecm"][u] = 1
            /\ calls["diagnostics"][u] = 0
            /\ pc \in {"pass2", "summary", "save", "done"}
            /\ pc = "pass2" => idx > PosOf(u)
            /\ pc # "done" => ENABLED Next
            /\ pc = "done" => output.written
            /\ \A v \in PanelSet :
                  PosOf(v) > PosOf(u) /\ SecondLoopPast(v) /\ Eligible(v) =>
                      calls["estimate_ecm"][v] = 1

\* A finished run in which VECM.fit raised for the first unit and the unit
\* after it was estimated and is in the output.
C13_Witness ==
    /\ Finished
    /\ \E u, v \in PanelSet :
          /\ PosOf(u) < PosOf(v)
          /\ "VECM.fit" \in failed[u]
          /\ calls["estimate_ecm"][v] = 1
          /\ InOutput(v)

(***************************************************************************)
(* C14 as claimed.  The residual diagnostics of a unit are computed        *)
(* independently: when one of the seven tests raises, the other six are    *)
(* still computed for the unit and reported in its diagnostics record.     *)
(***************************************************************************)
C14_DiagnosticsIndependent ==
    \A u \in PanelSet :
        \A t \in DiagnosticNames :
            t \in failed[u] =>
                /\ \A other \in DiagnosticNames \ {t} : calls[other][u] = 1
                /\ u \in UnitsOf(all_diagnostics)

(***************************************************************************)
(* C15 as claimed.  A unit whose ECM was fitted but for which a residual   *)
(* diagnostic test failed still has a record in the output, and the        *)
(* diagnostics of that record has its entries present (null where the      *)
(* test failed) rather than being empty.                                   *)
(***************************************************************************)
C15_DiagnosticFailureReported ==
    Finished =>
        \A u \in PanelSet :
            failed[u] \cap DiagnosticNames # {} =>
                /\ InOutput(u)
                /\ "jarque_bera_pvalue"
                       \in DOMAIN output.consolidated[u[1]][u[2]].diagnostics

(***************************************************************************)
(* C16 as claimed.  In the summary report total_datasets is the number of  *)
(* units attempted (those that passed the minimum-observations gate) and   *)
(* successful_ecm_estimations the number of units with a result, so that   *)
(* a run in which an attempted unit was skipped or failed has              *)
(* total_datasets > successful_ecm_estimations.                            *)
(***************************************************************************)
C16_TotalCountsAttempted ==
    LET attempted == {u \in PanelSet : calls["run_stationarity_tests"][u] > 0}
        succeeded == UnitsOf(all_results)
    IN  output.written =>
           /\ output.summary_report.successful_ecm_estimations
                  = Cardinality(succeeded)
           /\ output.summary_report.total_datasets = Cardinality(attempted)
           /\ attempted \ succeeded # {} =>
                  output.summary_report.total_datasets
                      > output.summary_report.successful_ecm_estimations

(***************************************************************************)
(* Vocabulary of the order of the stages.                                  *)
(***************************************************************************)
FirstPassRoutines == {"run_stationarity_tests", "tests_usdprice",
                      "tests_conflict_intensity", "engle_granger"}
SecondPassRoutines == Routines \ FirstPassRoutines

\* A loop is in the middle of the iteration of unit u.
Processing(u) == pc \in {"pass1", "pass2"} /\ idx = PosOf(u) /\ step # "gate"

(***************************************************************************)
(* C17 as claimed.  Units are processed one at a time: while any stage of  *)
(* a unit is running, no stage of a later unit has started (all four       *)
(* stages of a unit are over before the next unit starts).                 *)
(***************************************************************************)
C17_UnitAtATime ==
    \A u, v \in PanelSet :
        Processing(u) /\ PosOf(u) < PosOf(v) =>
            \A r \in Routines : calls[r][v] = 0

(***************************************************************************)
(* C17 as amended.  Units are processed sequentially in two passes.  In    *)
(* the first pass stationarity and then cointegration of a unit run to     *)
(* completion before any stage of the next unit starts, and no ECM or      *)
(* diagnostics stage runs.  The second pass starts when the first is over  *)
(* for every unit; in it the ECM and then the diagnostics of a unit run to *)
(* completion before the ECM stage of the next unit starts.                *)
(***************************************************************************)
C17_TwoPasses ==
    \A v \in PanelSet :
        /\ pc \in {"load", "pass1"} =>
              /\ \A r \in SecondPassRoutines : calls[r][v] = 0
              /\ ~InSomeList(v)
        /\ pc = "pass1" /\ PosOf(v) > idx => \A r \in Routines : calls[r][v] = 0
        /\ pc = "pass1" /\ step = "stationarity" /\ PosOf(v) = idx =>
              \A r \in Routines : calls[r][v] = 0
        /\ pc = "pass1" /\ step = "cointegration" /\ PosOf(v) = idx =>
              /\ calls["run_stationarity_tests"][v] = 2
              /\ calls["engle_granger"][v] = 0
        /\ pc = "pass2" =>
              /\ Rows(data[v]) >= MIN_OBSERVATIONS =>
                     calls["run_stationarity_tests"][v] = 2
              /\ Key(v) \in DOMAIN stationarity_results =>
                     calls["engle_granger"][v] = 1
        /\ pc = "pass2" /\ PosOf(v) > idx =>
              /\ \A r \in SecondPassRoutines : calls[r][v] = 0
              /\ ~InSomeList(v)
        /\ pc = "pass2" /\ PosOf(v) < idx =>
              (v \in UnitsOf(all_diagnostics) <=> v \in UnitsOf(all_results))
        /\ calls["engle_granger"][v] > 0 => calls["run_stationarity_tests"][v] = 2
        /\ calls["estimate_ecm"][v] > 0 => calls["engle_granger"][v] = 1
        /\ calls["diagnostics"][v] > 0 => calls["estimate_ecm"][v] = 1

\* The estimation of the first unit is about to run while the unit after it
\* already has its stationarity and cointegration tests behind it.
C17_Witness ==
    /\ pc = "pass2" /\ step = "estimate" /\ idx = 1
    /\ \E v \in PanelSet :
          /\ PosOf(v) > 1
          /\ calls["run_stationarity_tests"][v] = 2
          /\ calls["engle_granger"][v] = 1
          /\ calls["estimate_ecm"][v] = 0

C19_LoadFailureAborts ==
    LET load_failed == \/ ~input_file.exists
                       \/ \E c \in RequiredColumns : c \notin input_file.columns
    IN  /\ load_failed =>
              /\ pc \in {"load", "done"}
              /\ \A u \in PanelSet : \A r \in Routines : calls[r][u] = 0
              /\ stationarity_results = EmptyDict
              /\ cointegration_results = EmptyDict
              /\ \A u \in PanelSet : ~InSomeList(u)
              /\ ~output.written
        /\ pc = "done" /\ ~output.written => load_failed
        /\ ~load_failed /\ pc # "done" => ENABLED Next

\* The file was there without its usdprice column: the run is over, nothing
\* was written, although the panel had a unit with enough rows.
C19_Witness ==
    /\ pc = "done"
    /\ input_file.exists /\ "usdprice" \notin input_file.columns
    /\ ~output.written
    /\ \E u \in PanelSet : Rows(data[u]) >= MIN_OBSERVATIONS /\ ~BadData(u)

(***************************************************************************)
(* C20.  Within one run each unit is classified at most once per variable  *)
(* (each candidate of a series tested at most once), gets at most one      *)
(* cointegration test, at most one estimation attempt, at most one run of  *)
(* each later step, and at most one record in each list and in the         *)
(* output; a step that failed is not tried again.                          *)
(***************************************************************************)
C20_AtMostOnce ==
    LET Count(records, u) ==
            Cardinality({i \in 1..Len(records) :
                           << records[i].commodity, records[i].regime >> = u})
    IN  \A u \in PanelSet :
            /\ calls["run_stationarity_tests"][u] \in {0, 2}
            /\ calls["tests_usdprice"][u] <= Len(CandidateOrder)
            /\ calls["tests_conflict_intensity"][u] <= Len(CandidateOrder)
            /\ \A r \in Routines \ {"run_stationarity_tests", "tests_usdprice",
                                      "tests_conflict_intensity"} :
                  calls[r][u] <= 1
            /\ Count(all_results, u) <= 1
            /\ Count(all_diagnostics, u) <= 1
            /\ Count(all_summaries, u) <= 1
            /\ Count(all_irfs, u) <= 1
            /\ Count(all_fevds, u) <= 1
            /\ failed[u] \cap EstimationRoutines # {} =>
                  /\ calls["estimate_ecm"][u] = 1
                  /\ Cardinality(failed[u] \cap (EstimationRoutines \cup DiagnosticNames)) = 1
            /\ \A t \in failed[u] \cap DiagnosticNames :
                  /\ calls[t][u] = 1
                  /\ calls["diagnostics"][u] = 1
                  /\ Cardinality(failed[u] \cap (EstimationRoutines \cup DiagnosticNames)) = 1
            /\ Key(u) \in DOMAIN stationarity_results =>
                  calls["run_stationarity_tests"][u] = 2
            /\ Key(u) \in DOMAIN cointegration_results =>
                  calls["engle_granger"][u] = 1

\* A finished run in which the estimation of one unit failed after a single
\* attempt and another unit has its single record in every list.
C20_Witness ==
    /\ Finished
    /\ \E u, v \in PanelSet :
          /\ failed[u] \cap EstimationRoutines # {}
          /\ calls["estimate_ecm"][u] = 1
          /\ v \in UnitsOf(all_results) \cap UnitsOf(all_diagnostics)
                    \cap UnitsOf(all_irfs) \cap UnitsOf(all_fevds)
          /\ calls["estimate_ecm"][v] = 1

(***************************************************************************)
(* C21 as claimed.  Every series main() hands to the stationarity and      *)
(* cointegration tests is ordered by date, with strictly increasing dates: *)
(* no two observations of a series share a date, also when the file holds  *)
(* several markets per commodity and regime.                               *)
(***************************************************************************)
C21_DatesStrictlyIncreasing ==
    load.pc = "handed" =>
        \A k \in DOMAIN load.handed :
            \A i \in 1..(Len(load.handed[k]) - 1) :
                load.handed[k][i].date < load.handed[k][i + 1].date

(***************************************************************************)
(* Vocabulary of the properties of export_spatial_weights.                 *)
(***************************************************************************)
\* The k of [initial_k, max_k] whose KNN graph the check finds connected.
ConnectedKs ==
    {k \in knn.initial_k..knn.max_k :
        ~knn.check_raises /\ k >= knn.first_connected}

KnnLoopOver == knn.pc \in {"after", "export", "returned"}

(***************************************************************************)
(* C22.  For every initial_k <= max_k the densification loop is over after *)
(* at most max_k - initial_k + 1 KNN constructions (one per k, in          *)
(* increasing order from initial_k), and when some k in [initial_k, max_k] *)
(* gives a graph that is_fully_connected finds connected, the weights      *)
(* exported and returned are those of the smallest such k, are connected,  *)
(* and are not rebuilt after the loop.                                     *)
(***************************************************************************)
C22_SmallestConnectedK ==
    knn.initial_k <= knn.max_k =>
        /\ knn.constructions <= knn.max_k - knn.initial_k + 1
        /\ knn.pc = "loop" =>
               /\ knn.constructions = knn.k - knn.initial_k
               /\ ENABLED KnnNext
        /\ KnnLoopOver /\ ConnectedKs # {} =>
               /\ knn.w.k \in ConnectedKs
               /\ \A k \in ConnectedKs : knn.w.k <= k
               /\ knn.w.connected
               /\ knn.constructions = knn.w.k - knn.initial_k + 1
               /\ ~knn.degraded
               /\ knn.pc = "returned" => knn.ret = knn.w /\ knn.exported = knn.w

\* The loop densified once and stopped below max_k: initial_k = 1, connected
\* from k = 2 on, max_k = 3.
C22_Witness ==
    /\ knn.pc = "returned"
    /\ knn.initial_k = 1 /\ knn.max_k = 3
    /\ knn.ret.k = 2 /\ knn.ret.connected
    /\ knn.constructions = 2

C24_GrangerLagCeiling ==
    gc.pc \in {"test", "tested", "stored"} =>
        /\ gc.max_lag \in 1..COINTEGRATION_MAX_LAGS
        /\ gc.len_y >= 5 * COINTEGRATION_MAX_LAGS =>
               gc.max_lag = COINTEGRATION_MAX_LAGS
        /\ gc.len_y < 5 * COINTEGRATION_MAX_LAGS =>
               /\ 5 * gc.max_lag <= gc.len_y
               /\ gc.len_y < 5 * (gc.max_lag + 1)
        /\ gc.pc \in {"tested", "stored"} =>
               \A col \in XColumns :
                   IF col \in gc.raised
                   THEN gc.gc_results[col] = EmptyDict
                   ELSE DOMAIN gc.gc_results[col] = 1..gc.max_lag
        /\ gc.pc = "stored" => gc.granger_causality = gc.gc_results

\* 65 aligned observations, thirteen fives: the ceiling is the configured 12
\* and the record has results for the lag orders 1..12.
C24_Witness ==
    /\ gc.pc = "stored"
    /\ gc.len_y = 65
    /\ gc.max_lag = 12
    /\ DOMAIN gc.granger_causality["conflict_intensity"] = 1..12

(***************************************************************************)
(* C25 as claimed.  Without a native FEVD the fallback computes, for each  *)
(* horizon step i, the sum over j = 0..i of MA_j . Sigma_u . MA_j^T with   *)
(* Sigma_u the residual covariance sigma_u itself, takes its diagonal and  *)
(* divides it by the diagonal's sum: the shares of a step sum to 1.        *)
(***************************************************************************)
C25_FallbackUsesSigmaU ==
    ~fevd.has_fevd =>
        \A i \in 1..Len(fevd.fevd_data) :
            LET variance == AccumulatedVariance(fevd.ma_rep, fevd.sigma_u, i - 1)
                total == Diag(variance)[1] + Diag(variance)[2]
                fevd_step == fevd.fevd_data[i]
            IN  /\ fevd.variances[i] = variance
                /\ \A k \in 1..Neqs :
                      fevd_step[k].num * total
                          = Diag(variance)[k] * fevd_step[k].den
                /\ fevd_step[1].den > 0 /\ fevd_step[2].den = fevd_step[1].den
                /\ fevd_step[1].num + fevd_step[2].num = fevd_step[1].den

(***************************************************************************)
(* Vocabulary of the steps after the diagnostics.                          *)
(***************************************************************************)
LaterSteps == {"granger", "irf", "fevd"}

\* The record of the unit in one of the lists.
RecordOf(records, u) == FirstOf(records, u[1], u[2], EmptyDict)

(***************************************************************************)
(* C26.  When the Granger-causality, the impulse-response or the variance- *)
(* decomposition computation of a fitted unit fails, the unit is not       *)
(* dropped: the iteration goes on, the other two computations are still    *)
(* performed, the result record is appended and the unit is in the output; *)
(* the failed part is an empty Granger mapping, or an IRF or FEVD record   *)
(* with an explicit null.                                                  *)
(***************************************************************************)
C26_LaterFailuresKeepUnit ==
    \A u \in PanelSet :
        failed[u] \cap LaterSteps # {} =>
            /\ pc \in {"pass2", "summary", "save", "done"}
            /\ u \in UnitsOf(all_diagnostics)
            /\ pc = "pass2" => idx >= PosOf(u)
            /\ pc = "pass2" /\ idx = PosOf(u) =>
                   /\ step \in {"irf", "fevd", "append"}
                   /\ ENABLED Next
            /\ SecondLoopPast(u) =>
                   /\ \A r \in LaterSteps : calls[r][u] = 1
                   /\ u \in UnitsOf(all_results)
                   /\ u \in UnitsOf(all_irfs) /\ u \in UnitsOf(all_fevds)
                   /\ "granger" \in failed[u] <=>
                          RecordOf(all_results, u).granger_causality
                              = [conflict_intensity |-> {}]
                   /\ "irf" \in failed[u] <=>
                          RecordOf(all_irfs, u).impulse_response = "None"
                   /\ "fevd" \in failed[u] <=>
                          RecordOf(all_fevds, u)
                              .forecast_error_variance_decomposition = "None"
            /\ Finished => InOutput(u)

\* A finished run with a unit whose impulse response failed and whose
\* variance decomposition and Granger tests went through: it is in the output
\* with a null impulse response.
C26_Witness ==
    /\ Finished
    /\ \E u \in PanelSet :
          /\ failed[u] = {"irf"}
          /\ InOutput(u)
          /\ output.consolidated[u[1]][u[2]].irfs.impulse_response = "None"
          /\ output.consolidated[u[1]][u[2]].fevds
                 .forecast_error_variance_decomposition = "fevd_data"
          /\ output.consolidated[u[1]][u[2]].ecm_results.granger_causality
                 # [conflict_intensity |-> {}]

(***************************************************************************)
(* C27 as claimed.  In the variant, when the residual diagnostics of a     *)
(* fitted unit fail, a diagnostics record with every test field null is    *)
(* appended for the unit, and the run still builds the summary report      *)
(* (with its diagnostics_passed count) and writes the consolidated output  *)
(* with the unit in it.                                                    *)
(***************************************************************************)
C27_NullDiagnosticsRecorded ==
    variant_run.pc = "done" =>
        \A u \in PanelSet :
            /\ VariantGatePasses(variant_run.data[u])
            /\ variant_run.data[u].fit = "returns"
            /\ variant_run.data[u].diagnostics = "raise"
            => /\ u \in UnitsOf(variant_run.all_diagnostics)
               /\ IsNone(RecordOf(variant_run.all_diagnostics, u).jarque_bera_pvalue)
               /\ ~IsNone(variant_run.summary_report)
               /\ "diagnostics_passed" \in DOMAIN variant_run.summary_report
               /\ variant_run.output.written
               /\ u[1] \in DOMAIN variant_run.output.consolidated
               /\ u[2] \in DOMAIN variant_run.output.consolidated[u[1]]

\* The tasks whose worker returned a results dict.
GaveResults == {t \in Tasks : par.outcome[t] = "results"}

\* The tasks whose future the coordinator has taken from as_completed.
TakenByCoordinator == {t \in Tasks : par.future[t] = "consumed"}

PairsOf(tasks) == {args_list[t] : t \in tasks}

(***************************************************************************)
(* C28.  In the parallel spatial analysis, whatever the order in which the *)
(* workers complete: the result list holds records only of futures the     *)
(* coordinator has consumed (no worker writes into it), each task has at   *)
(* most one record, a task that returned None or raised is the only one    *)
(* whose record is missing, and the records of the saved file are those of *)
(* the tasks that returned a result, a set fixed by the tasks' outcomes    *)
(* and not by the order of completion.                                     *)
(***************************************************************************)
C28_CoordinatorMerges ==
    /\ UnitsOf(par.results) = PairsOf(TakenByCoordinator \cap GaveResults)
    /\ Len(par.results) = Cardinality(TakenByCoordinator \cap GaveResults)
    /\ (par.pc = "done" /\ par.saved.written) =>
          /\ UnitsOf(par.saved.records) = PairsOf(GaveResults)
          /\ Len(par.saved.records) = Cardinality(GaveResults)

\* A run is over in which one task raised or returned None, two returned a
\* result, and the later-submitted of the two was merged first.
C28_Witness ==
    /\ par.pc = "done" /\ par.saved.written
    /\ GaveResults # Tasks
    /\ Len(par.saved.records) >= 2
    /\ \E s, t \in GaveResults :
          /\ s < t
          /\ par.saved.records[1] = [commodity |-> args_list[t][1],
                             regime |-> args_list[t][2]]
          /\ par.saved.records[2] = [commodity |-> args_list[s][1],
                             regime |-> args_list[s][2]]

\* The unit of the record at a position of a list.
UnitAt(records, i) == << records[i].commodity, records[i].regime >>

\* Between line 226 and line 310 of an iteration the unit has its diagnostics
\* record and not yet its result.
AwaitingResult ==
    pc = "pass2" /\ step \in {"granger", "irf", "fevd", "append"}

(***************************************************************************)
(* C29.  The result list and the diagnostics list of run_ecm_analysis hold *)
(* the same units at the same positions: inside an iteration the           *)
(* diagnostics list is at most one record ahead, by the record of the      *)
(* current unit, and between iterations and after the loop both have the   *)
(* same length; so every record of the summary report, which pairs the     *)
(* lists by position, combines the result and the diagnostics of one unit. *)
(***************************************************************************)
C29_ListsAligned ==
    /\ \A i \in 1..Len(all_results) :
          /\ i <= Len(all_diagnostics)
          /\ UnitAt(all_results, i) = UnitAt(all_diagnostics, i)
    /\ IF AwaitingResult
       THEN /\ Len(all_diagnostics) = Len(all_results) + 1
            /\ UnitAt(all_diagnostics, Len(all_diagnostics)) = Unit
       ELSE Len(all_diagnostics) = Len(all_results)
    /\ pc \in {"save", "done"} /\ file_ok =>
          /\ Len(summary_report.datasets) = Len(all_results)
          /\ \A i \in 1..Len(summary_report.datasets) :
                summary_report.datasets[i].diagnostics_of
                    = << summary_report.datasets[i].commodity,
                         summary_report.datasets[i].regime >>

\* A finished run over a panel whose first unit was left out by a failed
\* diagnostic test and whose second unit went through: the summary report has
\* the one record, of the second unit.
C29_Witness ==
    /\ Finished
    /\ Len(Panel) >= 2
    /\ failed[Panel[1]] \cap DiagnosticNames # {}
    /\ Len(all_results) = 1 /\ Len(all_diagnostics) = 1
    /\ UnitAt(all_results, 1) = Panel[2]
    /\ summary_report.datasets[1].diagnostics_of = Panel[2]

\* The engle_granger part of a run's cointegration result, None when the run
\* has none.
EngleGrangerOf(run) ==
    IF IsNone(sel.cointegration_result[run]) THEN None
    ELSE sel.cointegration_result[run].engle_granger

(***************************************************************************)
(* C30.  Of two runs of a unit that differ only in the transformations the *)
(* stationarity classifier selected, both hand engle_granger the           *)
(* untransformed usdprice and conflict_intensity columns and estimate_ecm  *)
(* the untransformed y and x, so the test and the fit come out the same in *)
(* both; the selection appears in the cointegration result as its two      *)
(* labels and nowhere else.                                                *)
(***************************************************************************)
C30_SelectionHasNoInfluence ==
    /\ \A r \in 1..2 :
          /\ ~IsNone(sel.eg_args[r]) =>
                sel.eg_args[r] = [price |-> sel.df.usdprice,
                                  conflict |-> sel.df.conflict_intensity]
          /\ ~IsNone(sel.ecm_args[r]) =>
                sel.ecm_args[r] = [y |-> sel.df.usdprice,
                                   x |-> sel.df.conflict_intensity]
          /\ ~IsNone(sel.cointegration_result[r]) =>
                /\ sel.cointegration_result[r].price_transformation
                       = sel.st[r].usdprice.transformation
                /\ sel.cointegration_result[r].conflict_transformation
                       = sel.st[r].conflict_intensity.transformation
    /\ sel.pc = "done" =>
          /\ sel.eg_out[1] = sel.eg_out[2]
          /\ EngleGrangerOf(1) = EngleGrangerOf(2)
          /\ sel.ecm_args[1] = sel.ecm_args[2]
          /\ sel.fit_out[1] = sel.fit_out[2]

\* Both runs are over, one with the price series selected as it is and one
\* with its log difference, both found cointegration and fitted the model,
\* and the two cointegration results differ in the label.
C30_Witness ==
    /\ sel.pc = "done"
    /\ sel.st[1].usdprice.transformation = "original"
    /\ sel.st[2].usdprice.transformation = "log_diff"
    /\ ~IsNone(sel.fit_out[1]) /\ ~sel.fit_out[1].raises
    /\ ~IsNone(sel.fit_out[2]) /\ ~sel.fit_out[2].raises
    /\ sel.cointegration_result[1].price_transformation = "original"
    /\ sel.cointegration_result[2].price_transformation = "log_diff"

====
